---- MODULE Spec2Model ----
(***************************************************************************)
(* Model of the HTTP resilience core of the Amigo TypeScript SDK:          *)
(*   - the token cache / refresher and the auth middleware (core/auth.ts)  *)
(*   - the retrying transport (core/retry.ts)                              *)
(*   - the error middleware and the error factory (core/openapi-client.ts, *)
(*     core/errors.ts)                                                     *)
(* Two specifications are defined over the same module:                    *)
(*   Spec       the request pipeline of one client instance, several calls *)
(*              interleaved on one event loop;                             *)
(*   SpecRetry  one logical call of the retrying transport, with its       *)
(*              policy, its cancellation signal and its timers;            *)
(*   SpecUtil   one use of a helper of core/utils.ts or core/errors.ts:    *)
(*              createApiError, extractData, or one iteration over         *)
(*              parseNdjsonStream.                                         *)
(***************************************************************************)
EXTENDS Integers, Sequences, FiniteSets, TLC

\* ------------------------------------------------------------------ bounds
MaxCalls == 3
MaxExchanges == 3
MaxTicks == 1
MaxBodyLen == 5

Calls == 1..MaxCalls
ExchangeIds == 1..MaxExchanges

\* ------------------------------------------------------- values and records
Null == [kind |-> "null"]
Response(status, retryAfter) == [kind |-> "response", status |-> status, retryAfter |-> retryAfter]
Rejection(name) == [kind |-> "error", name |-> name]

HeaderMissing == [h |-> "missing"]
HeaderInvalid == [h |-> "invalid"]
HeaderSeconds(n) == [h |-> "seconds", v |-> n]
HeaderDate(t) == [h |-> "date", v |-> t]

\* Response.ok of the fetch standard: status in the range 200-299
ResponseOk(response) == response.kind = "response" /\ response.status >= 200 /\ response.status <= 299

Min(a, b) == IF a <= b THEN a ELSE b
Max(a, b) == IF a >= b THEN a ELSE b

RECURSIVE Pow2(_)
Pow2(n) == IF n <= 0 THEN 1 ELSE 2 * Pow2(n - 1)

\* ------------------------------------------------------------ core/errors.ts
\* The error classes are named by their kind in the taxonomy: PermissionError
\* is "Authorization", the base class AmigoError is "Generic".
\* the table of the first error factory, which has no class for 422
createApiError_No422(status) ==
  CASE status = 400 -> "BadRequest"
    [] status = 401 -> "Authentication"
    [] status = 403 -> "Authorization"
    [] status = 404 -> "NotFound"
    [] status = 409 -> "Conflict"
    [] status = 429 -> "RateLimit"
    [] status = 500 -> "ServerError"
    [] status = 503 -> "ServiceUnavailable"
    [] OTHER -> "Generic"

\* createApiError: map[response.status] ?? AmigoError
createApiError(status) ==
  CASE status = 400 -> "BadRequest"
    [] status = 401 -> "Authentication"
    [] status = 403 -> "Authorization"
    [] status = 404 -> "NotFound"
    [] status = 409 -> "Conflict"
    [] status = 422 -> "Validation"
    [] status = 429 -> "RateLimit"
    [] status = 500 -> "ServerError"
    [] status = 503 -> "ServiceUnavailable"
    [] OTHER -> "Generic"

\* ------------------------------------------------------------- core/retry.ts
\* a status set that also retries 401
DEFAULT_RETRYABLE_STATUS_With401 == {401, 408, 429, 500, 502, 503, 504}

DEFAULT_RETRYABLE_STATUS == {408, 429, 500, 502, 503, 504}
DEFAULT_RETRYABLE_METHODS == {"GET"}
DefaultMaxAttempts == 3
DefaultBackoffBaseMs == 250
DefaultMaxDelayMs == 30000

\* options?.x ?? default : an option left out is modelled by the record
\* lacking the field
resolveRetryOptions(options) ==
  [maxAttempts |-> IF "maxAttempts" \in DOMAIN options THEN options.maxAttempts ELSE DefaultMaxAttempts,
   backoffBaseMs |-> IF "backoffBaseMs" \in DOMAIN options THEN options.backoffBaseMs ELSE DefaultBackoffBaseMs,
   maxDelayMs |-> IF "maxDelayMs" \in DOMAIN options THEN options.maxDelayMs ELSE DefaultMaxDelayMs,
   retryOnStatus |-> IF "retryOnStatus" \in DOMAIN options THEN options.retryOnStatus ELSE DEFAULT_RETRYABLE_STATUS,
   retryOnMethods |-> IF "retryOnMethods" \in DOMAIN options THEN options.retryOnMethods ELSE DEFAULT_RETRYABLE_METHODS]

clamp(value, min, max) == Max(min, Min(max, value))

\* a parser that limits the hint from above only
parseRetryAfterMs_NoFloor(headerValue, maxDelayMs, nowMs) ==
  CASE headerValue.h = "missing" -> Null
    [] headerValue.h = "seconds" -> [kind |-> "ms", ms |-> Min(maxDelayMs, headerValue.v * 1000)]
    [] headerValue.h = "date" -> [kind |-> "ms", ms |-> Min(maxDelayMs, headerValue.v - nowMs)]
    [] OTHER -> Null

\* a parser that forgets to clamp the hint to maxDelayMs
parseRetryAfterMs_Unclamped(headerValue, maxDelayMs, nowMs) ==
  CASE headerValue.h = "missing" -> Null
    [] headerValue.h = "seconds" -> [kind |-> "ms", ms |-> Max(0, headerValue.v * 1000)]
    [] headerValue.h = "date" -> [kind |-> "ms", ms |-> Max(0, headerValue.v - nowMs)]
    [] OTHER -> Null

\* Number(headerValue) is finite for a "seconds" header, new Date(headerValue)
\* is a valid date for a "date" header, and both are NaN for an "invalid" one.
parseRetryAfterMs(headerValue, maxDelayMs, nowMs) ==
  CASE headerValue.h = "missing" -> Null
    [] headerValue.h = "seconds" -> [kind |-> "ms", ms |-> clamp(Max(0, headerValue.v * 1000), 0, maxDelayMs)]
    [] headerValue.h = "date" -> [kind |-> "ms", ms |-> clamp(Max(0, headerValue.v - nowMs), 0, maxDelayMs)]
    [] OTHER -> Null

\* Math.random() is drawn by the caller as a number of quarters, 0..3
RandomQuarters == 0..3

\* a backoff whose window is not limited by the cap
computeBackoffWithJitterMs_Uncapped(attemptIndexZeroBased, baseMs, capMs, random) ==
  LET windowMs == baseMs * Pow2(attemptIndexZeroBased)
  IN  (random * windowMs) \div 4

computeBackoffWithJitterMs(attemptIndexZeroBased, baseMs, capMs, random) ==
  LET windowMs == Min(capMs, baseMs * Pow2(attemptIndexZeroBased))
  IN  (random * windowMs) \div 4

\* a test that recognises no rejection as a cancellation
isAbortError_Never(err) == FALSE

isAbortError(err) == err.kind = "error" /\ err.name = "AbortError"

isTransportRejection(err) == err.kind = "error" /\ ~isAbortError(err)

\* a decision that retries POST on 429 whenever a Retry-After header is
\* present, parseable or not
RetryDecision_PostAnyHeader(method, attempt, error, response, resolved, random, nowMs) ==
  LET isMethodRetryableByDefault == method \in resolved.retryOnMethods
      backoff == computeBackoffWithJitterMs(attempt - 1, resolved.backoffBaseMs, resolved.maxDelayMs, random)
  IN  IF isTransportRejection(error)
      THEN [shouldRetry |-> isMethodRetryableByDefault,
            delayMs |-> IF isMethodRetryableByDefault THEN [kind |-> "ms", ms |-> backoff] ELSE Null]
      ELSE IF response.kind = "response"
      THEN LET parsed == parseRetryAfterMs(response.retryAfter, resolved.maxDelayMs, nowMs)
           IN  IF method = "POST"
               THEN IF response.status = 429 /\ response.retryAfter.h # "missing"
                    THEN [shouldRetry |-> TRUE,
                          delayMs |-> IF parsed # Null THEN parsed ELSE [kind |-> "ms", ms |-> backoff]]
                    ELSE [shouldRetry |-> FALSE, delayMs |-> Null]
               ELSE IF isMethodRetryableByDefault /\ response.status \in resolved.retryOnStatus
                    THEN [shouldRetry |-> TRUE,
                          delayMs |-> IF parsed # Null THEN parsed ELSE [kind |-> "ms", ms |-> backoff]]
                    ELSE [shouldRetry |-> FALSE, delayMs |-> Null]
      ELSE [shouldRetry |-> FALSE, delayMs |-> Null]

\* a decision that retries a transport failure whatever the method
RetryDecision_TransportAnyMethod(method, attempt, error, response, resolved, random, nowMs) ==
  LET isMethodRetryableByDefault == method \in resolved.retryOnMethods
      backoff == computeBackoffWithJitterMs(attempt - 1, resolved.backoffBaseMs, resolved.maxDelayMs, random)
  IN  IF isTransportRejection(error)
      THEN [shouldRetry |-> TRUE, delayMs |-> [kind |-> "ms", ms |-> backoff]]
      ELSE IF response.kind = "response"
      THEN LET parsed == parseRetryAfterMs(response.retryAfter, resolved.maxDelayMs, nowMs)
           IN  IF method = "POST"
               THEN IF response.status = 429 /\ parsed # Null
                    THEN [shouldRetry |-> TRUE, delayMs |-> parsed]
                    ELSE [shouldRetry |-> FALSE, delayMs |-> Null]
               ELSE IF isMethodRetryableByDefault /\ response.status \in resolved.retryOnStatus
                    THEN [shouldRetry |-> TRUE,
                          delayMs |-> IF parsed # Null THEN parsed ELSE [kind |-> "ms", ms |-> backoff]]
                    ELSE [shouldRetry |-> FALSE, delayMs |-> Null]
      ELSE [shouldRetry |-> FALSE, delayMs |-> Null]

\* a decision that retries a retryable status whatever the method
RetryDecision_AnyMethod(method, attempt, error, response, resolved, random, nowMs) ==
  LET isMethodRetryableByDefault == method \in resolved.retryOnMethods
      backoff == computeBackoffWithJitterMs(attempt - 1, resolved.backoffBaseMs, resolved.maxDelayMs, random)
  IN  IF isTransportRejection(error)
      THEN [shouldRetry |-> isMethodRetryableByDefault,
            delayMs |-> IF isMethodRetryableByDefault THEN [kind |-> "ms", ms |-> backoff] ELSE Null]
      ELSE IF response.kind = "response"
      THEN LET parsed == parseRetryAfterMs(response.retryAfter, resolved.maxDelayMs, nowMs)
           IN  IF method = "POST"
               THEN IF response.status = 429 /\ parsed # Null
                    THEN [shouldRetry |-> TRUE, delayMs |-> parsed]
                    ELSE [shouldRetry |-> FALSE, delayMs |-> Null]
               ELSE IF response.status \in resolved.retryOnStatus
                    THEN [shouldRetry |-> TRUE,
                          delayMs |-> IF parsed # Null THEN parsed ELSE [kind |-> "ms", ms |-> backoff]]
                    ELSE [shouldRetry |-> FALSE, delayMs |-> Null]
      ELSE [shouldRetry |-> FALSE, delayMs |-> Null]

\* The body of one iteration of the loop of retryingFetch after the attempt
\* has settled without a 2xx response: shouldRetry and delayMs.
RetryDecision(method, attempt, error, response, resolved, random, nowMs) ==
  LET isMethodRetryableByDefault == method \in resolved.retryOnMethods
      backoff == computeBackoffWithJitterMs(attempt - 1, resolved.backoffBaseMs, resolved.maxDelayMs, random)
  IN  IF isTransportRejection(error)
      THEN [shouldRetry |-> isMethodRetryableByDefault,
            delayMs |-> IF isMethodRetryableByDefault THEN [kind |-> "ms", ms |-> backoff] ELSE Null]
      ELSE IF response.kind = "response"
      THEN LET parsed == parseRetryAfterMs(response.retryAfter, resolved.maxDelayMs, nowMs)
           IN  IF method = "POST"
               THEN IF response.status = 429 /\ parsed # Null
                    THEN [shouldRetry |-> TRUE, delayMs |-> parsed]
                    ELSE [shouldRetry |-> FALSE, delayMs |-> Null]
               ELSE IF isMethodRetryableByDefault /\ response.status \in resolved.retryOnStatus
                    THEN [shouldRetry |-> TRUE,
                          delayMs |-> IF parsed # Null THEN parsed ELSE [kind |-> "ms", ms |-> backoff]]
                    ELSE [shouldRetry |-> FALSE, delayMs |-> Null]
      ELSE [shouldRetry |-> FALSE, delayMs |-> Null]

\* -------------------------------------------------------------- core/auth.ts
NoToken == [kind |-> "null"]
NoExpiry == -1
Token(id, exp) == [kind |-> "token", id_token |-> id, expires_at |-> exp]

MinuteMs == 60 * 1000
\* the clock of the model advances in steps of five minutes
TickMs == 5 * MinuteMs
\* lifetimes of the tokens the sign-in endpoint issues
Lifetimes == {NoExpiry, 5 * MinuteMs, 10 * MinuteMs}

\* a test that lets a token run to the very edge of the window
shouldRefreshToken_Strict(tokenData, currentTime) ==
  IF tokenData.expires_at = NoExpiry THEN FALSE
  ELSE tokenData.expires_at - currentTime < 5 * 60 * 1000

shouldRefreshToken(tokenData, currentTime) ==
  IF tokenData.expires_at = NoExpiry THEN FALSE
  ELSE LET expiryTime == tokenData.expires_at
           timeUntilExpiry == expiryTime - currentTime
           refreshThreshold == 5 * 60 * 1000
       IN  timeUntilExpiry <= refreshThreshold

\* the condition under which ensureValidToken needs a refresh
needsRefresh(tok, currentTime) == tok = NoToken \/ shouldRefreshToken(tok, currentTime)

\* Outcomes of the sign-in request of getBearerToken
SignInStatuses == {401, 500}
\* A 200 answer carries a token whose id_token names the exchange, or a body
\* without id_token (EmptyId), which response.json() returns as it is.
EmptyId == 0
SignInOutcomes(id, currentTime) ==
  {[kind |-> "ok", token |-> Token(id, IF l = NoExpiry THEN NoExpiry ELSE currentTime + l)] : l \in Lifetimes}
    \cup {[kind |-> "ok", token |-> Token(EmptyId, NoExpiry)]}
    \cup {[kind |-> "http", status |-> s] : s \in SignInStatuses}
    \cup {[kind |-> "reject", name |-> "TypeError"]}

\* getBearerToken: the settlement of the promise it returned, for an outcome
\* of the sign-in request.  A non-2xx response rejects with the error made by
\* createApiError (an AuthenticationError for 401), a rejection of fetch with
\* a NetworkError whose cause is the rejection.
getBearerToken(outcome) ==
  CASE outcome.kind = "ok" ->
         [state |-> "fulfilled", value |-> outcome.token, error |-> "none", cause |-> "none"]
    [] outcome.kind = "http" ->
         [state |-> "rejected", value |-> NoToken, error |-> createApiError(outcome.status), cause |-> "none"]
    [] OTHER ->
         [state |-> "rejected", value |-> NoToken, error |-> "Network", cause |-> outcome.name]

\* the retry policy of the client in the pipeline specification
PipelineMaxAttempts == 2
PipelineRetry == resolveRetryOptions([maxAttempts |-> PipelineMaxAttempts])
PipelineMethod == "GET"
PipelineOutcomes ==
  {Response(s, HeaderMissing) : s \in {200, 401, 500}} \cup {Rejection("TypeError")}

VARIABLES
  now,            \* Date.now()
  token,          \* createAuthMiddleware: let token
  refreshPromise, \* createAuthMiddleware: let refreshPromise (0 is null)
  exchange,       \* the promises returned by getBearerToken, by exchange id
  authCalls,      \* number of credential exchanges started so far
  waiters,        \* per exchange: the calls awaiting its promise, in order
  microtasks,     \* the reactions queued by the last settlement
  call,           \* per API call: its position in the pipeline
  cleared401,     \* a 401 emptied the cache; no call has begun, no token stored since
  resolved,       \* createRetryingFetch: the resolved retry options
  method,         \* retryingFetch: the method of the request
  signal,         \* init.signal: "none", "idle" or "aborted"
  rpc,            \* the position of the call of retryingFetch
  attempt,        \* the loop variable of retryingFetch
  sendCount,      \* number of calls of the underlying fetch
  sleepCount,     \* number of calls of abortableSleep
  timerCount,     \* number of timers set by abortableSleep
  lastOutcome,    \* the response or error of the last settled attempt
  delayMs,        \* the delay passed to the last abortableSleep (-1: none yet)
  result,         \* what retryingFetch returned or threw
  clock,          \* Date.now() of the transport
  eligibleRun,    \* every settled attempt but the last was retry-eligible
  retryableRun,   \* every settled attempt returned a retryable status
  utilOp,         \* the helper in use: "none", "classify", "extract", "ndjson"
  utilIn,         \* the argument of createApiError / extractData
  utilOut,        \* what it returned or threw
  hasBody,        \* parseNdjsonStream: response.body is not null
  body,           \* the text of the whole body
  unread,         \* the part of the body the reader has not delivered yet
  bufferedText,   \* parseNdjsonStream: let bufferedText
  ndPc,           \* the position of the generator
  locked,         \* the body's stream is locked to the reader
  received,       \* the records the consumer has been handed, in order
  ndExit          \* how the generator ended: "end", "parse", "read", "return"

retryVars == <<resolved, method, signal, rpc, attempt, sendCount, sleepCount, timerCount,
               lastOutcome, delayMs, result, clock, eligibleRun, retryableRun>>

authVars == <<now, token, refreshPromise, exchange, authCalls, waiters, microtasks, call, cleared401>>

utilVars == <<utilOp, utilIn, utilOut, hasBody, body, unread, bufferedText, ndPc, locked, received, ndExit>>

vars == <<authVars, retryVars, utilVars>>

\* A call that has not begun, and the fields a call keeps while it runs: the
\* handle it awaits and its role, the bearer value stamped on its request,
\* the attempt of the transport, the sends the upstream has observed, the
\* status of its last settled attempt (0: none yet), what the caller received
\* and the cause that error carries.
IdleCall == [pc |-> "idle", awaited |-> 0, role |-> "none", authorization |-> 0,
             attempt |-> 0, sends |-> 0, last |-> 0, result |-> "none", cause |-> "none"]

\* the status of a settled attempt, -1 for a transport failure
StatusOf(o) == IF o.kind = "response" THEN o.status ELSE -1

\* A finished call keeps what the caller and the upstream have seen of it
Finished(rec, res) ==
  [IdleCall EXCEPT !.pc = "done", !.authorization = rec.authorization, !.attempt = rec.attempt,
                   !.sends = rec.sends, !.last = rec.last, !.result = res]

UnusedExchange == [state |-> "unused", value |-> NoToken, error |-> "none", cause |-> "none", requests |-> 0]
\* a settled promise nobody holds any more
ConsumedExchange == [state |-> "consumed", value |-> NoToken, error |-> "none", cause |-> "none", requests |-> 0]

AuthInit ==
  /\ now = 0
  /\ token = NoToken
  /\ refreshPromise = 0
  /\ exchange = [e \in ExchangeIds |-> UnusedExchange]
  /\ authCalls = 0
  /\ waiters = [e \in ExchangeIds |-> <<>>]
  /\ microtasks = <<>>
  /\ call = [c \in Calls |-> IdleCall]
  /\ cleared401 = FALSE

\* the exchanges whose promise is still pending
InFlight == {e \in ExchangeIds : exchange[e].state = "pending"}

\* ensureValidToken without the test of the stored handle: every call that
\* needs a token starts an exchange of its own
ensureValidTokenBranch_NoCoalescing(tok, handle, currentTime) ==
  IF ~needsRefresh(tok, currentTime) THEN "use" ELSE "start"

\* ensureValidToken, up to its await: what the call does with the cache and
\* the stored handle.  "use" returns the cached token, "start" stores a new
\* pending handle, "join" awaits the stored one.
ensureValidTokenBranch(tok, handle, currentTime) ==
  IF ~needsRefresh(tok, currentTime) THEN "use"
  ELSE IF handle = 0 THEN "start"
  ELSE "join"

\* the Authorization header of a request: NoHeader when it has none, else the
\* id_token that follows "Bearer "
NoHeader == 0

\* an interceptor that never sets the header
Stamped_NoHeader(rec, validToken) ==
  [rec EXCEPT !.pc = "inflight", !.awaited = 0, !.role = "none",
              !.authorization = NoHeader,
              !.attempt = 1, !.sends = 1]

\* onRequest: "if (validToken?.id_token)" the header is set to the bearer
\* value; the request is returned and handed to the transport, which makes
\* its first attempt
Stamped(rec, validToken) ==
  [rec EXCEPT !.pc = "inflight", !.awaited = 0, !.role = "none",
              !.authorization = IF validToken # NoToken /\ validToken.id_token # EmptyId
                                THEN validToken.id_token ELSE NoHeader,
              !.attempt = 1, !.sends = 1]

\* onRequest of the auth middleware, to the first await of ensureValidToken.
\* Calls are started in the order of their ids.
OnRequest(c) ==
  /\ microtasks = <<>>
  /\ call[c].pc = "idle"
  /\ \A d \in Calls : d < c => call[d].pc # "idle"
  /\ LET branch == ensureValidTokenBranch(token, refreshPromise, now)
     IN  CASE branch = "use" ->
                /\ call' = [call EXCEPT ![c] = Stamped(@, token)]
                /\ UNCHANGED <<refreshPromise, exchange, authCalls, waiters>>
           [] branch = "start" ->
                /\ authCalls < MaxExchanges
                /\ LET e == authCalls + 1
                   IN  /\ refreshPromise' = e
                       /\ exchange' = [exchange EXCEPT ![e].state = "pending", ![e].requests = 1]
                       /\ authCalls' = e
                       /\ waiters' = [waiters EXCEPT ![e] = Append(@, c)]
                       /\ call' = [call EXCEPT ![c] = [@ EXCEPT !.pc = "awaiting", !.awaited = e,
                                                                !.role = "initiator"]]
           [] OTHER ->
                /\ waiters' = [waiters EXCEPT ![refreshPromise] = Append(@, c)]
                /\ call' = [call EXCEPT ![c] = [@ EXCEPT !.pc = "awaiting", !.awaited = refreshPromise,
                                                         !.role = "waiter"]]
                /\ UNCHANGED <<refreshPromise, exchange, authCalls>>
  /\ cleared401' = FALSE
  /\ UNCHANGED <<now, token, microtasks>>
  /\ UNCHANGED <<retryVars, utilVars>>

\* a sign-in request sent through the retrying transport of the client
signInRetried_ThroughTransport(outcome, requests) ==
  /\ requests < DefaultMaxAttempts
  /\ \/ outcome.kind = "reject"
     \/ outcome.kind = "http" /\ outcome.status \in DEFAULT_RETRYABLE_STATUS

\* getBearerToken awaits one call of the global fetch: whatever its outcome,
\* the request is not sent again
signInRetried(outcome, requests) == FALSE

\* the settled promise of an exchange that has sent the given number of
\* requests
SettledWith(p, requests) ==
  [state |-> p.state, value |-> p.value, error |-> p.error, cause |-> p.cause, requests |-> requests]

\* The sign-in request of an exchange settles: the promise of getBearerToken
\* settles and the reactions of the calls awaiting it are queued, in the
\* order in which they started to await.
SignInSettles(e) ==
  /\ microtasks = <<>>
  /\ exchange[e].state = "pending"
  /\ \E outcome \in SignInOutcomes(e, now) :
       IF signInRetried(outcome, exchange[e].requests)
       THEN /\ exchange' = [exchange EXCEPT ![e].requests = @ + 1]
            /\ UNCHANGED microtasks
       ELSE /\ exchange' = [exchange EXCEPT ![e] = SettledWith(getBearerToken(outcome), @.requests)]
            /\ microtasks' = waiters[e]
  /\ UNCHANGED <<now, token, refreshPromise, authCalls, waiters, call, cleared401>>
  /\ UNCHANGED <<retryVars, utilVars>>

\* an initiator without the finally block: the settled handle stays stored
handleAfterSettle_Keeps(role, handle) == handle

\* the handle after the initiator's finally block; a waiter leaves it alone
handleAfterSettle(role, handle) == IF role = "initiator" THEN 0 ELSE handle

\* the awaited value is dropped and the cached variable is returned as it was
tokenAfterAwait_Stale(tok, value) == tok

\* token = await refreshPromise, when the promise is fulfilled with value
tokenAfterAwait(tok, value) == value

\* an ensureValidToken that tests the expiry of the token it has just been
\* given and hands out none when that token is due for a refresh
returnedToken_Rechecked(tok, currentTime) == IF needsRefresh(tok, currentTime) THEN NoToken ELSE tok

\* ensureValidToken after the await: "return token", with no second look at
\* the expiry
returnedToken(tok, currentTime) == tok

\* a catch block that swallows the failure: the request goes out unstamped
afterRejection_Swallowed(rec, error, cause) == Stamped(rec, NoToken)

\* a catch block that wraps every failure in an AuthenticationError whose
\* cause is the failure
afterRejection_Wrapped(rec, error, cause) ==
  [Finished(rec, "Authentication") EXCEPT !.cause = IF error = "Authentication" THEN cause ELSE error]

\* the catch block of onRequest: the failure of ensureValidToken is thrown
\* again as it is, and the request is not sent
afterRejection(rec, error, cause) == [Finished(rec, error) EXCEPT !.cause = cause]

\* the catch block of onRequest: token = null
tokenAfterRejection(tok) == NoToken

\* The continuation of ensureValidToken after "await refreshPromise", and the
\* rest of onRequest.  The promise is dropped once its last reaction has run.
Resume(c) ==
  /\ microtasks # <<>>
  /\ c = Head(microtasks)
  /\ microtasks' = Tail(microtasks)
  /\ LET e == call[c].awaited
         p == exchange[e]
     IN  /\ refreshPromise' = handleAfterSettle(call[c].role, refreshPromise)
         /\ IF p.state = "fulfilled"
            THEN /\ token' = tokenAfterAwait(token, p.value)
                 /\ cleared401' = FALSE
                 /\ call' = [call EXCEPT ![c] = Stamped(@, returnedToken(token', now))]
            ELSE /\ call' = [call EXCEPT ![c] = afterRejection(@, p.error, p.cause)]
                 /\ token' = tokenAfterRejection(token)
                 /\ UNCHANGED cleared401
         /\ IF Tail(microtasks) = <<>>
            THEN /\ exchange' = [exchange EXCEPT ![e] = ConsumedExchange]
                 /\ waiters' = [waiters EXCEPT ![e] = <<>>]
            ELSE UNCHANGED <<exchange, waiters>>
  /\ UNCHANGED <<now, authCalls>>
  /\ UNCHANGED <<retryVars, utilVars>>

\* an onResponse hook that leaves the cache alone
authOnResponse_KeepsToken(tok, response, authorization) == tok

\* a hook that drops the cached token only when the request that was
\* answered 401 carried it
authOnResponse_IfSameToken(tok, response, authorization) ==
  IF response.status = 401 /\ tok # NoToken /\ tok.id_token = authorization THEN NoToken ELSE tok

\* onResponse of the auth middleware: a 401 empties the cache, whatever the
\* Authorization header of the request that was answered
authOnResponse(tok, response, authorization) == IF response.status = 401 THEN NoToken ELSE tok

\* onResponse of the error middleware: what the caller receives
errorOnResponse(response) == IF ~ResponseOk(response) THEN createApiError(response.status) ELSE "ok"

\* isNetworkError: a TypeError, or an Error whose message names a network
\* failure; the message of an AbortError names none
isNetworkError(name) == name = "TypeError"

\* onError of the error middleware: a network failure is thrown as a
\* NetworkError, anything else is rethrown as it is
errorOnError(name) == IF isNetworkError(name) THEN "Network" ELSE name

\* onError of the auth middleware (after it has emptied the cache): the
\* error is thrown again as it is
authOnError(name) == name

\* The onError hooks of the two middlewares.  Each of them throws, so the
\* hook that runs first ends the chain.  "reverse" is the reverse of the
\* registration order (auth first), "registration" is the other one.
HookOrders == {"reverse", "registration"}
LibraryOrder == "reverse"
onErrorChain(order, name) == IF order = "reverse" THEN authOnError(name) ELSE errorOnError(name)

\* The attempt in flight of call c settles with outcome o: one iteration of
\* the loop of retryingFetch and, when the loop ends, the response or error
\* hooks of the middlewares (auth first, then error handling).  The length of
\* the backoff plays no part here, so one value of the random source is used.
UpstreamResponds(c, o) ==
  /\ microtasks = <<>>
  /\ call[c].pc = "inflight"
  /\ LET error == IF o.kind = "error" THEN o ELSE Null
         response == IF o.kind = "response" THEN o ELSE Null
         maxAttempts == Max(1, PipelineRetry.maxAttempts)
         attemptsRemain == call[c].attempt < maxAttempts
         d == RetryDecision(PipelineMethod, call[c].attempt, error, response, PipelineRetry, 0, now)
     IN  IF ResponseOk(o) \/ ~d.shouldRetry \/ ~attemptsRemain
         THEN IF error # Null
              THEN /\ token' = NoToken
                   /\ call' = [call EXCEPT ![c] = Finished([@ EXCEPT !.last = StatusOf(o)],
                                                            onErrorChain(LibraryOrder, error.name))]
                   /\ UNCHANGED cleared401
              ELSE /\ token' = authOnResponse(token, response, call[c].authorization)
                   /\ cleared401' = IF token' = NoToken /\ response.status = 401 THEN TRUE ELSE cleared401
                   /\ call' = [call EXCEPT ![c] = Finished([@ EXCEPT !.last = StatusOf(o)], errorOnResponse(response))]
         ELSE /\ call' = [call EXCEPT ![c] = [@ EXCEPT !.pc = "sleeping", !.last = StatusOf(o)]]
              /\ UNCHANGED <<token, cleared401>>
  /\ UNCHANGED <<now, refreshPromise, exchange, authCalls, waiters, microtasks>>
  /\ UNCHANGED <<retryVars, utilVars>>

\* The backoff sleep of call c completes and the next attempt is sent
BackoffElapses(c) ==
  /\ microtasks = <<>>
  /\ call[c].pc = "sleeping"
  /\ call' = [call EXCEPT ![c] = [@ EXCEPT !.pc = "inflight", !.attempt = @ + 1, !.sends = @ + 1]]
  /\ UNCHANGED <<now, token, refreshPromise, exchange, authCalls, waiters, microtasks, cleared401>>
  /\ UNCHANGED <<retryVars, utilVars>>

\* Time passes
Tick ==
  /\ microtasks = <<>>
  /\ now < MaxTicks * TickMs
  /\ now' = now + TickMs
  /\ UNCHANGED <<token, refreshPromise, exchange, authCalls, waiters, microtasks, call, cleared401>>
  /\ UNCHANGED <<retryVars, utilVars>>

Next ==
  \/ \E c \in Calls : OnRequest(c)
  \/ \E e \in ExchangeIds : SignInSettles(e)
  \/ \E c \in Calls : Resume(c)
  \/ \E c \in Calls, o \in PipelineOutcomes : UpstreamResponds(c, o)
  \/ \E c \in Calls : BackoffElapses(c)
  \/ Tick

\* ===================================================== claims on the pipeline

\* a call leaves the interceptor's await in this step
LeavesAwait(c) == call[c].pc = "awaiting" /\ call'[c].pc # "awaiting"
\* a call begins (onRequest runs) in this step
Begins(c) == call[c].pc = "idle" /\ call'[c].pc # "idle"
\* the attempt in flight of a call settles with a 401 response in this step
Receives401(c) == call[c].pc = "inflight" /\ call'[c] # call[c] /\ call'[c].last = 401

\* C1: at most one credential exchange is in flight at any instant; while an
\* exchange is pending, its handle is the stored one and every call that
\* awaits a token awaits that handle.
C1_SingleExchangeInFlight ==
  /\ Cardinality(InFlight) <= 1
  /\ \A e \in InFlight :
       /\ refreshPromise = e
       /\ \A c \in Calls : call[c].pc = "awaiting" => call[c].awaited = e

C1_Witness == \E e \in InFlight : Len(waiters[e]) >= 2 /\ refreshPromise = e

\* C2: the calls that ask for a token before the exchange settles all await
\* one exchange (a call that finds a stored handle starts none), and when it
\* succeeds each of them is stamped with the token that exchange returned,
\* which is the token left in the cache.
C2_CoalescedCallersShareToken ==
  [][/\ \A c \in Calls :
          (Begins(c) /\ needsRefresh(token, now) /\ refreshPromise # 0)
            => (authCalls' = authCalls /\ call'[c].awaited = refreshPromise)
     /\ \A c1, c2 \in Calls :
          (call'[c1].pc = "awaiting" /\ call'[c2].pc = "awaiting") => call'[c1].awaited = call'[c2].awaited
     /\ \A c \in Calls :
          (LeavesAwait(c) /\ exchange[call[c].awaited].state = "fulfilled")
            => /\ call'[c].pc = "inflight"
               /\ call'[c].authorization = exchange[call[c].awaited].value.id_token
               /\ token' = exchange[call[c].awaited].value]_vars

\* the last of three coalesced callers is about to resume; the two before it
\* carry the token of the exchange, which is the cached one
C2_Witness ==
  \E e \in ExchangeIds :
    /\ exchange[e].state = "fulfilled"
    /\ Len(waiters[e]) = 3
    /\ Len(microtasks) = 1
    /\ token = exchange[e].value
    /\ \A i \in 1..2 : /\ call[waiters[e][i]].pc = "inflight"
                       /\ call[waiters[e][i]].authorization = token.id_token

\* the kinds of failure getBearerToken rejects with
SignInFailures == {"Authentication", "ServerError", "Network"}

\* C3: when the exchange fails, every call that awaited it receives the
\* failure of the exchange and sends nothing, and the cache holds no token of
\* that exchange (it holds none at all).
C3_FailurePropagatesToAllWaiters ==
  [][\A c \in Calls :
       (LeavesAwait(c) /\ exchange[call[c].awaited].state = "rejected")
         => /\ call'[c].pc = "done"
            /\ call'[c].result = exchange[call[c].awaited].error
            /\ call'[c].result \in SignInFailures
            /\ call'[c].sends = 0
            /\ token' = NoToken]_vars

C3_Witness ==
  \E c1, c2 \in Calls :
    /\ c1 # c2
    /\ \A c \in {c1, c2} : call[c].pc = "done" /\ call[c].result = "ServerError" /\ call[c].sends = 0
    /\ authCalls = 1

\* C4 as stated: a 401 response empties the cache, and the next call, the
\* first to begin after it while the cache is still empty, starts exactly one
\* new exchange.
C4_Next401CallStartsOneExchange ==
  [][/\ \A c \in Calls : Receives401(c) => (token' = NoToken /\ cleared401')
     /\ \A c \in Calls : (Begins(c) /\ cleared401) => authCalls' = authCalls + 1]_vars

\* C4 as amended: a 401 response empties the cache; the next call, the first
\* to begin after it while the cache is still empty, starts exactly one new
\* exchange when no refresh is in flight, and otherwise joins the refresh in
\* flight and starts none.
C4_Next401CallStartsOrJoins ==
  [][/\ \A c \in Calls : Receives401(c) => (token' = NoToken /\ cleared401')
     /\ \A c \in Calls :
          (Begins(c) /\ cleared401)
            => /\ token = NoToken
               /\ call'[c].pc = "awaiting"
               /\ IF refreshPromise = 0
                  THEN authCalls' = authCalls + 1 /\ call'[c].awaited = authCalls' /\ refreshPromise' = authCalls'
                  ELSE authCalls' = authCalls /\ call'[c].awaited = refreshPromise]_vars

\* two sequential calls: the first got a 401, the second has started the
\* second exchange
C4_Witness ==
  /\ call[1].pc = "done" /\ call[1].last = 401
  /\ call[2].pc = "awaiting" /\ call[2].role = "initiator" /\ call[2].awaited = 2
  /\ call[3].pc = "idle"
  /\ authCalls = 2
  /\ token = NoToken
  /\ now = 0

\* C5: a request that receives a 401 response is not sent again: the call
\* ends there with an Authentication error, the upstream has seen no send of
\* it beyond the one answered (one send in all when the 401 answers the first
\* attempt), and a finished call never sends again.
C5_No401Replay ==
  [][/\ \A c \in Calls :
          Receives401(c)
            => /\ call'[c].pc = "done"
               /\ call'[c].result = "Authentication"
               /\ call'[c].sends = call[c].sends
               /\ (call[c].attempt = 1 => call'[c].sends = 1)
     /\ \A c \in Calls : call[c].pc = "done" => call'[c] = call[c]]_vars

C5_Witness ==
  \E c \in Calls :
    /\ call[c].pc = "done" /\ call[c].last = 401 /\ call[c].result = "Authentication" /\ call[c].sends = 1
    /\ \E d \in Calls : call[d].pc = "done" /\ call[d].sends = 2

\* the interceptor hands the request of a call to the transport in this step
PassedOn(c) == call[c].pc \in {"idle", "awaiting"} /\ call'[c].pc = "inflight"
\* ensureValidToken fails for a call in this step
TokenFails(c) == LeavesAwait(c) /\ exchange[call[c].awaited].state = "rejected"

\* C21 as stated: a request the interceptor passes on carries the header
\* "Bearer " and the bearer value ensureValidToken returned for that call (the
\* cached token as that call leaves it); when ensureValidToken fails the
\* request is not sent.
C21_EveryRequestStamped ==
  [][\A c \in Calls :
       /\ PassedOn(c)
            => /\ token' # NoToken
               /\ call'[c].authorization # NoHeader
               /\ call'[c].authorization = token'.id_token
       /\ TokenFails(c) => (call'[c].pc = "done" /\ call'[c].sends = 0)]_vars

\* C21 as amended: a request the interceptor passes on carries the header
\* with the bearer value ensureValidToken returned when that token has a
\* non-empty id_token, and no Authorization header when it has none (the
\* request is sent all the same); when ensureValidToken fails the request is
\* not sent, and a call that has sent nothing never sends.
C21_RequestStampedWhenIdTokenPresent ==
  [][\A c \in Calls :
       /\ PassedOn(c)
            => /\ token' # NoToken
               /\ call'[c].sends = 1
               /\ IF token'.id_token # EmptyId
                  THEN call'[c].authorization = token'.id_token
                  ELSE call'[c].authorization = NoHeader
       /\ call'[c].sends > call[c].sends => call'[c].authorization = call[c].authorization \/ PassedOn(c)
       /\ TokenFails(c) => (call'[c].pc = "done" /\ call'[c].sends = 0)
       /\ (call[c].pc = "done" /\ call[c].sends = 0) => call'[c] = call[c]]_vars

\* one call failed with its exchange and sent nothing; a later call was
\* stamped with the token of the second exchange and has been sent
C21_Witness ==
  \E c, d \in Calls :
    /\ call[c].pc = "done" /\ call[c].sends = 0 /\ call[c].result = "Network"
    /\ call[d].pc = "inflight" /\ call[d].sends = 1 /\ call[d].authorization = 2
    /\ token # NoToken /\ token.id_token = 2

\* the sign-in request of the exchange a call awaits has rejected, and the
\* call leaves its await in this step
ExchangeTransportFailure(c) ==
  /\ TokenFails(c)
  /\ exchange[call[c].awaited].cause = "TypeError"

\* C22 as stated: when the sign-in request rejects, the caller of the API
\* request receives an AuthenticationError that keeps the failure as its
\* cause (directly, or as the cause of the NetworkError it wraps), not a
\* Network error.
C22_ExchangeFailureIsAuthentication ==
  [][\A c \in Calls :
       ExchangeTransportFailure(c)
         => /\ call'[c].result = "Authentication"
            /\ call'[c].cause \in {"TypeError", "Network"}]_vars

\* what the interceptor does in the case of C22: when the sign-in request
\* rejects, the request is not sent and the caller receives the NetworkError
\* made by getBearerToken, whose cause is the rejection; it is not wrapped in
\* an AuthenticationError.
ExchangeFailureIsNetworkWithCause ==
  [][\A c \in Calls :
       ExchangeTransportFailure(c)
         => /\ call'[c].pc = "done"
            /\ call'[c].sends = 0
            /\ call'[c].result = "Network"
            /\ call'[c].cause = "TypeError"]_vars

\* the initiator and a waiter of an exchange whose sign-in request rejected
ExchangeFailureWitness ==
  \E c, d \in Calls :
    /\ c # d
    /\ \A x \in {c, d} :
         call[x].pc = "done" /\ call[x].result = "Network" /\ call[x].cause = "TypeError" /\ call[x].sends = 0
    /\ authCalls = 1
    /\ token = NoToken

\* the refresh-ahead window of the claims
RefreshAheadMs == 5 * MinuteMs
\* a refresh is needed: no token is cached, or the cached token has a known
\* expiry no more than the window ahead
RefreshNeeded ==
  \/ token = NoToken
  \/ token.expires_at # NoExpiry /\ token.expires_at - now <= RefreshAheadMs

\* C26: a call starts or joins a refresh exactly when a refresh is needed:
\* it then awaits the stored handle, or a new exchange when none is stored;
\* otherwise its request goes out with the cached token, the cache is left
\* as it is and no exchange is started.
C26_RefreshExactlyWhenNeeded ==
  [][\A c \in Calls :
       Begins(c)
         => IF RefreshNeeded
            THEN /\ call'[c].pc = "awaiting"
                 /\ IF refreshPromise = 0
                    THEN authCalls' = authCalls + 1 /\ call'[c].awaited = authCalls'
                    ELSE authCalls' = authCalls /\ call'[c].awaited = refreshPromise
            ELSE /\ call'[c].pc = "inflight"
                 /\ authCalls' = authCalls
                 /\ exchange' = exchange
                 /\ token' = token
                 /\ call'[c].authorization = token.id_token]_vars

\* the first call obtained a token that expires in ten minutes; five minutes
\* later the second call starts the second exchange although that token is
\* still cached, and a token without expiry is never refreshed
C26_Witness ==
  /\ call[1].pc # "idle" /\ call[1].authorization = 1
  /\ call[2].pc = "awaiting" /\ call[2].role = "initiator" /\ call[2].awaited = 2
  /\ token = Token(1, 10 * MinuteMs)
  /\ now = 5 * MinuteMs

\* two calls share a token without expiry: one exchange in all
C26_NoExpiryWitness ==
  /\ token = Token(1, NoExpiry)
  /\ now = TickMs
  /\ authCalls = 1
  /\ \A c \in {1, 2} : call[c].pc = "inflight" /\ call[c].authorization = 1

\* the stored handle names a settled exchange only in the instant between the
\* settlement and the continuation of the call that started it, which is the
\* first reaction to run
HandleClearedOnSettle ==
  refreshPromise # 0 /\ exchange[refreshPromise].state # "pending"
    => /\ microtasks # <<>>
       /\ call[Head(microtasks)].role = "initiator"
       /\ call[Head(microtasks)].awaited = refreshPromise

\* a call that needs a token while no exchange is pending starts a new one
StartsNewExchange(c) ==
  Begins(c) /\ RefreshNeeded /\ InFlight = {}
    => /\ authCalls' = authCalls + 1
       /\ refreshPromise' = authCalls'
       /\ exchange'[authCalls'].state = "pending"
       /\ call'[c].awaited = authCalls'

\* C27: when an exchange settles, with a token or with a failure, the stored
\* handle is cleared as soon as the call that started it continues: it never
\* names an exchange that has been consumed, and a later call that needs a
\* token starts a new exchange.
C27_HandleClearedOnSettle ==
  /\ []HandleClearedOnSettle
  /\ [][\A c \in Calls : StartsNewExchange(c)]_vars

\* the first exchange failed and its call has ended with that failure; the
\* second call has started the second exchange, which is pending
C27_Witness ==
  /\ call[1].pc = "done" /\ call[1].result \in SignInFailures
  /\ call[2].pc = "awaiting" /\ call[2].role = "initiator" /\ call[2].awaited = 2
  /\ refreshPromise = 2
  /\ exchange[2].state = "pending"
  /\ token = NoToken

\* C36: an exchange sends one sign-in request.  Whatever that request ends
\* in, a retryable status and a transport failure included, the exchange
\* settles in that step: it is fulfilled by a 2xx answer and rejected by any
\* other outcome, and it has sent exactly one request.
C36_ExchangeIsOneRequest ==
  /\ [](\A e \in ExchangeIds :
          exchange[e].state \in {"pending", "fulfilled", "rejected"} => exchange[e].requests = 1)
  /\ [][\A e \in ExchangeIds :
          (exchange[e].state = "pending" /\ exchange'[e] # exchange[e])
            => /\ exchange'[e].state \in {"fulfilled", "rejected"}
               /\ exchange'[e].requests = 1
               /\ authCalls' = authCalls]_vars

\* the first exchange was answered 500, a retryable status, and is rejected
\* with a ServerError after its only request
C36_Witness ==
  /\ exchange[1].state = "rejected"
  /\ exchange[1].error = "ServerError"
  /\ exchange[1].requests = 1
  /\ authCalls = 1

\* a cached token with a bearer value is dropped in this step
TokenCleared == token # NoToken /\ token.id_token # EmptyId /\ token' = NoToken
\* the last attempt of a call ends in a transport failure in this step
RequestFails(c) == call[c].pc = "inflight" /\ call'[c].pc = "done" /\ call'[c].last = -1

\* C37 as stated: the cache is emptied only by a 401 response or by a failed
\* exchange; the transport failure of an API request leaves a cached token
\* as it is.
C37_TokenClearedOnlyOn401OrExchangeFailure ==
  [][/\ TokenCleared => \E c \in Calls : Receives401(c) \/ TokenFails(c)
     /\ (\E c \in Calls : RequestFails(c)) => token' = token]_vars

\* the steps that empty the cache: a 401 response, a failed exchange, and the
\* transport failure of an API request
TokenClearedOnlyOn401ExchangeOrRequestFailure ==
  [][TokenCleared => \E c \in Calls : Receives401(c) \/ TokenFails(c) \/ RequestFails(c)]_vars

\* a request stamped with another token than the cached one is answered 401
Late401(c) ==
  /\ Receives401(c)
  /\ token # NoToken
  /\ call[c].authorization # token.id_token

C40_OneExchangePerCall ==
  [][\A c \in Calls :
       /\ (call[c].pc # "awaiting" /\ call'[c].pc = "awaiting") => call[c].pc = "idle"
       /\ (LeavesAwait(c) /\ exchange[call[c].awaited].state = "fulfilled")
            => LET issued == exchange[call[c].awaited].value
               IN  /\ token' = issued
                   /\ call'[c].pc = "inflight"
                   /\ call'[c].authorization = issued.id_token
                   /\ authCalls' = authCalls
                   /\ InFlight' \subseteq InFlight
       /\ (Begins(c) /\ token # NoToken /\ RefreshNeeded /\ refreshPromise = 0)
            => (authCalls' = authCalls + 1 /\ call'[c].awaited = authCalls')]_vars

\* the first call was given a token that expires in five minutes, inside the
\* window from the start, and its request carries it; the second call has
\* started the refresh
C40_Witness ==
  /\ now = 0
  /\ token = Token(1, 5 * MinuteMs)
  /\ call[1].pc = "inflight" /\ call[1].authorization = 1 /\ call[1].sends = 1
  /\ call[2].pc = "awaiting" /\ call[2].role = "initiator" /\ call[2].awaited = 2
  /\ authCalls = 2

\* the kinds of the error taxonomy
ErrorKinds ==
  {"BadRequest", "Authentication", "Authorization", "NotFound", "Conflict", "RateLimit",
   "ServerError", "ServiceUnavailable", "Generic", "Network", "Timeout", "Parse",
   "Validation", "Configuration"}

\* C15 as stated: a call whose last attempt ended in a non-2xx response or in
\* a transport failure has handed its caller one error of the taxonomy.
C15_EveryFailureTyped ==
  \A c \in Calls :
    (call[c].pc = "done" /\ call[c].sends >= 1 /\ call[c].last \notin 200..299)
      => call[c].result \in ErrorKinds

\* ------------------------------------------- one call of retryingFetch
\* the retry options a client may be configured with
MaxAttemptsChoices == {-1, 0, 1, 2}
RetryOptionsChoices ==
  {[x \in {} |-> 0]}
    \cup {[maxAttempts |-> n] : n \in MaxAttemptsChoices}
    \cup {[maxAttempts |-> n, retryOnMethods |-> {"GET", "POST", "PUT"}] : n \in {2}}
    \cup {[maxDelayMs |-> 1000]}
RetryMethods == {"GET", "POST", "PUT"}
RetryStatuses == {200, 401, 404, 429, 500}
\* Retry-After headers: none, unparseable, seconds, and HTTP dates given by
\* their distance from the time of the response
RetryAfterSeconds == {-1, 0, 1, 60}
RetryAfterDateOffsets == {-3000, 3000}
RetryAfterHeaders(nowMs) ==
  {HeaderMissing, HeaderInvalid}
    \cup {HeaderSeconds(n) : n \in RetryAfterSeconds}
    \cup {HeaderDate(nowMs + d) : d \in RetryAfterDateOffsets}
RetryOutcomes(nowMs) ==
  {Response(s, h) : s \in RetryStatuses, h \in RetryAfterHeaders(nowMs)}
    \cup {Rejection("TypeError"), Rejection("AbortError")}

RetryParked ==
  /\ method = "GET"
  /\ signal = "none"
  /\ rpc = "idle"
  /\ attempt = 0
  /\ sendCount = 0
  /\ sleepCount = 0
  /\ timerCount = 0
  /\ lastOutcome = Null
  /\ delayMs = -1
  /\ result = Null
  /\ clock = 0
  /\ eligibleRun = TRUE
  /\ retryableRun = TRUE

RetryInit ==
  /\ resolved \in {resolveRetryOptions(o) : o \in RetryOptionsChoices}
  /\ RetryParked

\* a loop bound without the floor
effectiveMaxAttempts_Unfloored(r) == r.maxAttempts

\* a loop bound that allows one attempt too many
effectiveMaxAttempts_OneMore(r) == Max(1, r.maxAttempts) + 1

\* const maxAttempts = Math.max(1, resolved.maxAttempts)
effectiveMaxAttempts(r) == Max(1, r.maxAttempts)

\* the head of the for loop: the next attempt is sent, or the loop is left
LoopHead(a) ==
  IF a <= effectiveMaxAttempts(resolved)
  THEN /\ attempt' = a
       /\ rpc' = "sending"
       /\ sendCount' = sendCount + 1
       /\ UNCHANGED result
  ELSE /\ attempt' = a
       /\ rpc' = "thrown"
       /\ result' = Rejection("Retry loop exited unexpectedly")
       /\ UNCHANGED sendCount

\* A call of retryingFetch begins: the first attempt is sent
retryingFetch(m, s) ==
  /\ rpc = "idle"
  /\ method' = m
  /\ signal' = s
  /\ LoopHead(1)
  /\ UNCHANGED <<resolved, sleepCount, timerCount, lastOutcome, delayMs, clock, eligibleRun, retryableRun>>
  /\ UNCHANGED <<authVars, utilVars>>

\* a settled attempt the claims call retry-eligible: a retryable status or a
\* transport failure other than a cancellation
EligibleOutcome(o) ==
  \/ o.kind = "response" /\ o.status \in resolved.retryOnStatus
  \/ isTransportRejection(o)

\* a test that counts the attempt just made as one that remains
attemptsRemainAfter_Inclusive(a, maxAttempts) == a <= maxAttempts

\* const attemptsRemain = attempt < maxAttempts
attemptsRemainAfter(a, maxAttempts) == a < maxAttempts

\* a loop that does not look at the signal before it sleeps
loopEnds_IgnoresSignal(shouldRetry, attemptsRemain, sig) == ~shouldRetry \/ ~attemptsRemain

\* a sleep the loop does not wait for: the next attempt is sent at once
abortableSleepReturnsAtOnce_Always(ms) == TRUE

\* abortableSleep: if (ms <= 0) return
abortableSleepReturnsAtOnce(ms) == ms <= 0

\* if (!shouldRetry || !attemptsRemain) ... if (signal?.aborted) ...
loopEnds(shouldRetry, attemptsRemain, sig) == ~shouldRetry \/ ~attemptsRemain \/ sig = "aborted"

\* The attempt in flight settles with outcome o: the rest of the iteration,
\* to the return, the throw or the call of abortableSleep.
AttemptSettles(o) ==
  /\ rpc = "sending"
  /\ lastOutcome' = o
  /\ eligibleRun' = (eligibleRun /\ (lastOutcome = Null \/ EligibleOutcome(lastOutcome)))
  /\ retryableRun' = (retryableRun /\ o.kind = "response" /\ o.status \in resolved.retryOnStatus)
  /\ LET error == IF o.kind = "error" THEN o ELSE Null
         response == IF o.kind = "response" THEN o ELSE Null
         attemptsRemain == attemptsRemainAfter(attempt, effectiveMaxAttempts(resolved))
     IN  \E random \in RandomQuarters :
           LET d == RetryDecision(method, attempt, error, response, resolved, random, clock)
               ms == IF d.delayMs = Null THEN 0 ELSE d.delayMs.ms
           IN  IF ResponseOk(o)
               THEN /\ rpc' = "returned"
                    /\ result' = o
                    /\ UNCHANGED <<attempt, sendCount, sleepCount, timerCount, delayMs>>
               ELSE IF loopEnds(d.shouldRetry, attemptsRemain, signal)
               THEN /\ rpc' = IF error # Null THEN "thrown" ELSE "returned"
                    /\ result' = o
                    /\ UNCHANGED <<attempt, sendCount, sleepCount, timerCount, delayMs>>
               ELSE /\ sleepCount' = sleepCount + 1
                    /\ delayMs' = ms
                    /\ IF abortableSleepReturnsAtOnce(ms)
                       THEN /\ LoopHead(attempt + 1)
                            /\ UNCHANGED timerCount
                       ELSE /\ rpc' = "sleeping"
                            /\ timerCount' = timerCount + 1
                            /\ UNCHANGED <<attempt, sendCount, result>>
  /\ UNCHANGED <<resolved, method, signal, clock>>
  /\ UNCHANGED <<authVars, utilVars>>

\* The timer of abortableSleep fires: the sleep resolves and the loop goes on
TimerFires ==
  /\ rpc = "sleeping"
  /\ clock' = clock + delayMs
  /\ LoopHead(attempt + 1)
  /\ UNCHANGED <<resolved, method, signal, sleepCount, timerCount, lastOutcome, delayMs, eligibleRun, retryableRun>>
  /\ UNCHANGED <<authVars, utilVars>>

\* a sleep that does not listen to the signal: the timer stays armed
AbortDuringSleep_Ignored ==
  /\ rpc = "sleeping"
  /\ signal = "idle"
  /\ signal' = "aborted"
  /\ UNCHANGED <<resolved, method, rpc, attempt, sendCount, sleepCount, timerCount, lastOutcome, delayMs,
                 result, clock, eligibleRun, retryableRun>>
  /\ UNCHANGED <<authVars, utilVars>>

\* The signal fires while abortableSleep is pending: onAbort clears the timer
\* and rejects, and retryingFetch rejects with the AbortError
AbortDuringSleep ==
  /\ rpc = "sleeping"
  /\ signal = "idle"
  /\ signal' = "aborted"
  /\ rpc' = "thrown"
  /\ result' = Rejection("AbortError")
  /\ UNCHANGED <<resolved, method, attempt, sendCount, sleepCount, timerCount, lastOutcome, delayMs, clock,
                 eligibleRun, retryableRun>>
  /\ UNCHANGED <<authVars, utilVars>>

\* The signal fires while an attempt is in flight
AbortDuringAttempt ==
  /\ rpc = "sending"
  /\ signal = "idle"
  /\ signal' = "aborted"
  /\ UNCHANGED <<resolved, method, rpc, attempt, sendCount, sleepCount, timerCount, lastOutcome, delayMs,
                 result, clock, eligibleRun, retryableRun>>
  /\ UNCHANGED <<authVars, utilVars>>

NextRetry ==
  \/ \E m \in RetryMethods, s \in {"none", "idle"} : retryingFetch(m, s)
  \/ \E o \in RetryOutcomes(clock) : AttemptSettles(o)
  \/ TimerFires
  \/ AbortDuringSleep
  \/ AbortDuringAttempt

\* what the caller of the pipeline receives from a finished call of the
\* transport when the hooks run in the given order
callerReceivesIn(order) ==
  IF rpc = "returned" THEN errorOnResponse(result)
  ELSE IF rpc = "thrown" THEN onErrorChain(order, result.name)
  ELSE "pending"

\* what the caller of the pipeline receives from a finished call of the
\* transport: the error middleware classifies a returned non-2xx response
callerReceives == callerReceivesIn(LibraryOrder)

\* ==================================================== claims on the transport

\* the attempt in flight settles in this step
Settles == rpc = "sending" /\ signal' = signal
Is2xx(o) == o.kind = "response" /\ o.status \in 200..299
\* a Retry-After header that carries a number of seconds or an HTTP date
ValidHint(h) == h.h \in {"seconds", "date"}
\* the delay such a header asks for at time t, limited to [0, cap]
HintMs(h, cap, t) ==
  LET raw == IF h.h = "seconds" THEN h.v * 1000 ELSE h.v - t
  IN  IF raw < 0 THEN 0 ELSE IF raw > cap THEN cap ELSE raw

\* C6: for a method of retryableMethods, when the attempts before it all
\* ended in retry-eligible outcomes and attempt k+1 (k < maxAttempts) returns
\* a 2xx response, the sender was invoked k+1 times, k sleeps occurred and
\* the call returns that response; a 2xx response always ends the call at
\* once.
C6_SuccessAfterRetries ==
  /\ (rpc = "returned" /\ Is2xx(result) /\ method \in resolved.retryOnMethods /\ eligibleRun)
       => /\ attempt <= Max(1, resolved.maxAttempts)
          /\ sendCount = attempt
          /\ sleepCount = attempt - 1
          /\ result = lastOutcome
  /\ Is2xx(lastOutcome) => (rpc = "returned" /\ result = lastOutcome)

C6_Witness ==
  /\ rpc = "returned" /\ Is2xx(result) /\ method = "GET" /\ eligibleRun
  /\ attempt = 3 /\ sendCount = 3 /\ sleepCount = 2 /\ timerCount = 2

\* C7 as stated: with maxAttempts = N >= 1, a request of a retryable method
\* whose every attempt returns a retryable status ends after exactly N sends
\* and N-1 sleeps with the error classified from the last response.
C7_ExhaustionAfterMaxAttempts ==
  (/\ rpc \in {"returned", "thrown"}
   /\ signal = "none"
   /\ resolved.maxAttempts >= 1
   /\ method \in resolved.retryOnMethods
   /\ retryableRun)
    => /\ sendCount = resolved.maxAttempts
       /\ sleepCount = resolved.maxAttempts - 1
       /\ callerReceives = createApiError(lastOutcome.status)

PostSleepsBeforeNextAttempt ==
  /\ (method' = "POST" /\ rpc' = "sending" /\ attempt' >= 2)
       => /\ sleepCount' = attempt' - 1
          /\ lastOutcome'.kind = "response"
               => /\ lastOutcome'.status = 429
                  /\ ValidHint(lastOutcome'.retryAfter)
                  /\ lastOutcome'.retryAfter.h = "seconds"
                       => delayMs' = HintMs(lastOutcome'.retryAfter, resolved.maxDelayMs, 0)
  /\ (method' = "POST" /\ rpc' = "returned" /\ Is2xx(result') /\ attempt' = 2)
       => (sendCount' = 2 /\ sleepCount' = 1)

\* the transport goes on to a sleep of ms milliseconds: a timer when ms > 0,
\* the next attempt at once otherwise
GoesToSleep(ms) ==
  /\ sleepCount' = sleepCount + 1
  /\ delayMs' = ms
  /\ IF ms > 0
     THEN rpc' = "sleeping" /\ timerCount' = timerCount + 1 /\ sendCount' = sendCount
     ELSE rpc' = "sending" /\ attempt' = attempt + 1 /\ sendCount' = sendCount + 1

\* a POST is answered 429 with a valid hint while attempts remain
PostHinted ==
  /\ Settles
  /\ method = "POST"
  /\ lastOutcome'.kind = "response"
  /\ lastOutcome'.status = 429
  /\ ValidHint(lastOutcome'.retryAfter)
  /\ attempt < Max(1, resolved.maxAttempts)

\* C9 as stated: a POST answered 429 with a valid hint is retried while
\* attempts remain, after a sleep of the hinted delay clamped to
\* [0, maxDelayMs]; a 2xx on the next attempt ends the call with two sends.
C9_PostRateLimitWithHintRetried ==
  [][/\ PostHinted => GoesToSleep(HintMs(lastOutcome'.retryAfter, resolved.maxDelayMs, clock))
     /\ PostSleepsBeforeNextAttempt]_vars

\* C9 as amended: the same, provided the cancellation signal has not been
\* triggered when the 429 arrives; when it has, the call ends without a
\* sleep and without a further send.
C9_PostRateLimitWithHintRetriedUnlessAborted ==
  [][/\ (PostHinted /\ signal # "aborted")
          => GoesToSleep(HintMs(lastOutcome'.retryAfter, resolved.maxDelayMs, clock))
     /\ (PostHinted /\ signal = "aborted")
          => (rpc' \in {"returned", "thrown"} /\ sleepCount' = sleepCount /\ sendCount' = sendCount)
     /\ PostSleepsBeforeNextAttempt]_vars

C9_Witness ==
  /\ method = "POST" /\ rpc = "returned" /\ Is2xx(result)
  /\ attempt = 2 /\ sendCount = 2 /\ sleepCount = 1 /\ timerCount = 1
  /\ delayMs = 1000

\* the combinations in which the claim allows a retry of a non-2xx response
RetryAllowed(m, o) ==
  \/ m \in resolved.retryOnMethods /\ o.status \in resolved.retryOnStatus
  \/ o.status = 429 /\ ValidHint(o.retryAfter) /\ m \notin resolved.retryOnMethods

\* C10: a non-2xx response is retried only in the allowed combinations; in
\* every other one the call returns that response for classification with
\* no further send and no sleep (one send, no sleep on the first attempt).
C10_RetryOnlyWhenEligible ==
  [][(Settles /\ lastOutcome'.kind = "response" /\ ~Is2xx(lastOutcome'))
       => /\ (sleepCount' # sleepCount \/ sendCount' # sendCount) => RetryAllowed(method, lastOutcome')
          /\ ~RetryAllowed(method, lastOutcome')
               => /\ rpc' = "returned"
                  /\ result' = lastOutcome'
                  /\ callerReceives' = createApiError(lastOutcome'.status)
                  /\ sendCount' = sendCount /\ sleepCount' = sleepCount /\ timerCount' = timerCount
                  /\ (attempt = 1 => (sendCount' = 1 /\ sleepCount' = 0))]_vars

C10_Witness ==
  /\ method = "PUT" /\ resolved.retryOnMethods = {"GET"} /\ resolved.maxAttempts = 3
  /\ rpc = "returned" /\ result.status = 500 /\ sendCount = 1 /\ sleepCount = 0 /\ timerCount = 0

\* a transport failure other than a cancellation settles the attempt
TransportFails ==
  /\ Settles
  /\ lastOutcome'.kind = "error"
  /\ lastOutcome'.name # "AbortError"

\* the window of the computed backoff before attempt a + 1
BackoffWindow(a) ==
  LET w == resolved.backoffBaseMs * Pow2(a - 1)
  IN  IF w > resolved.maxDelayMs THEN resolved.maxDelayMs ELSE w

\* the transport goes on to a sleep of a computed backoff
GoesToBackoff ==
  /\ delayMs' \in 0..BackoffWindow(attempt)
  /\ GoesToSleep(delayMs')

\* the failure is rethrown without a further send or sleep
Rethrown ==
  /\ rpc' = "thrown"
  /\ result' = lastOutcome'
  /\ sendCount' = sendCount
  /\ sleepCount' = sleepCount
  /\ timerCount' = timerCount

\* C11 as stated: a transport failure that is not a cancellation is retried
\* with a computed backoff if and only if the method is in retryableMethods
\* and attempts remain; for a method outside the set it is rethrown, after
\* one send and no sleep when it ends the first attempt.
C11_TransportFailureRetriedIffMethod ==
  [][TransportFails
       => /\ IF method \in resolved.retryOnMethods /\ attempt < Max(1, resolved.maxAttempts)
             THEN GoesToBackoff
             ELSE Rethrown
          /\ (method \notin resolved.retryOnMethods /\ attempt = 1)
               => (sendCount' = 1 /\ sleepCount' = 0)]_vars

\* C11 as amended: the same, where the retry also requires that the
\* cancellation signal has not been triggered; when it has, there is no
\* sleep and no further send.
C11_TransportFailureRetriedIffMethodAndSignal ==
  [][TransportFails
       => /\ IF /\ method \in resolved.retryOnMethods
                /\ attempt < Max(1, resolved.maxAttempts)
                /\ signal # "aborted"
             THEN GoesToBackoff
             ELSE sendCount' = sendCount /\ sleepCount' = sleepCount /\ timerCount' = timerCount
          /\ method \notin resolved.retryOnMethods => Rethrown
          /\ (method \notin resolved.retryOnMethods /\ attempt = 1)
               => (sendCount' = 1 /\ sleepCount' = 0)]_vars

\* a GET whose two attempts both failed: one retry after one sleep, then the
\* failure is rethrown
C11_Witness ==
  /\ method = "GET" /\ resolved.maxAttempts = 2
  /\ rpc = "thrown" /\ result = Rejection("TypeError")
  /\ attempt = 2 /\ sendCount = 2 /\ sleepCount = 1

\* C12: when the signal fires while a backoff sleep is pending, the call
\* rejects with an AbortError in that step, without the timer having fired,
\* and a call that has ended never sends again.
C12_AbortDuringSleepRejects ==
  [][/\ (rpc = "sleeping" /\ signal # "aborted" /\ signal' = "aborted")
          => /\ rpc' = "thrown"
             /\ result' = Rejection("AbortError")
             /\ callerReceives' = "AbortError"
             /\ clock' = clock
             /\ sendCount' = sendCount
             /\ attempt' = attempt
     /\ rpc \in {"thrown", "returned"} => (rpc' = rpc /\ sendCount' = sendCount)
     /\ signal = "aborted" => signal' = "aborted"
     /\ (signal = "aborted" /\ rpc = "sleeping") => sendCount' = sendCount]_vars

C12_Witness ==
  /\ rpc = "thrown" /\ result = Rejection("AbortError")
  /\ signal = "aborted"
  /\ lastOutcome = Response(500, HeaderMissing)
  /\ sleepCount = 1 /\ timerCount = 1 /\ sendCount = 1 /\ clock = 0

\* C13 as stated: when the signal is already triggered as the loop is about
\* to go on to a further attempt (a retry-eligible failure of a retryable
\* method, attempts remaining), the call ends with a cancellation error and
\* no further attempt is made.
C13_TriggeredSignalEndsWithCancellation ==
  [][(/\ Settles
      /\ signal = "aborted"
      /\ method \in resolved.retryOnMethods
      /\ method # "POST"
      /\ lastOutcome'.kind = "response" \/ lastOutcome'.name # "AbortError"
      /\ lastOutcome'.kind = "response" => lastOutcome'.status \in resolved.retryOnStatus
      /\ attempt < Max(1, resolved.maxAttempts))
       => /\ rpc' = "thrown"
          /\ result' = Rejection("AbortError")
          /\ sendCount' = sendCount]_vars

\* C14: a rejection of the sender with an AbortError is never retried,
\* whatever the method and the attempts that remain: it is rethrown without
\* a sleep, and the caller receives it as it is, whichever error hook runs
\* first.
C14_AbortErrorNeverRetried ==
  [][(Settles /\ lastOutcome'.kind = "error" /\ lastOutcome'.name = "AbortError")
       => /\ Rethrown
          /\ \A order \in HookOrders : callerReceivesIn(order)' = "AbortError"]_vars

C14_Witness ==
  /\ method = "GET" /\ resolved.maxAttempts = 3
  /\ rpc = "thrown" /\ result = Rejection("AbortError") /\ lastOutcome = Rejection("AbortError")
  /\ attempt = 1 /\ sendCount = 1 /\ sleepCount = 0 /\ timerCount = 0
  /\ callerReceives = "AbortError"

\* a non-2xx response settles the attempt
ResponseSettles ==
  /\ Settles
  /\ lastOutcome'.kind = "response"
  /\ ~Is2xx(lastOutcome')

\* the wait the claims prescribe after the response that has just settled:
\* the hinted delay when the header is present and valid, a computed backoff
\* otherwise
GoesToHintOrBackoff ==
  IF ValidHint(lastOutcome'.retryAfter)
  THEN GoesToSleep(HintMs(lastOutcome'.retryAfter, resolved.maxDelayMs, clock))
  ELSE GoesToBackoff

\* every wait that follows a response is of the prescribed length
WaitAfterResponseIsHintOrBackoff ==
  [][(ResponseSettles /\ sleepCount' = sleepCount + 1) => GoesToHintOrBackoff]_vars

\* C23 as stated: after a response with a retryable status to a request of a
\* method of retryableMethods (attempts remaining, signal not triggered) the
\* transport waits the parsed Retry-After value when the header is present
\* and valid and a computed backoff otherwise, so an invalid header does not
\* end the retry; and every wait that follows a response is of that length.
C23_RetryAfterTakesPrecedence ==
  [][/\ (/\ ResponseSettles
          /\ method \in resolved.retryOnMethods
          /\ lastOutcome'.status \in resolved.retryOnStatus
          /\ attempt < Max(1, resolved.maxAttempts)
          /\ signal # "aborted")
         => GoesToHintOrBackoff
     /\ (ResponseSettles /\ sleepCount' = sleepCount + 1) => GoesToHintOrBackoff]_vars

\* the same for the methods other than POST
RetryAfterTakesPrecedenceExceptPost ==
  [][/\ (/\ ResponseSettles
          /\ method \in resolved.retryOnMethods
          /\ method # "POST"
          /\ lastOutcome'.status \in resolved.retryOnStatus
          /\ attempt < Max(1, resolved.maxAttempts)
          /\ signal # "aborted")
         => GoesToHintOrBackoff
     /\ (ResponseSettles /\ sleepCount' = sleepCount + 1) => GoesToHintOrBackoff]_vars

\* the transport retries after the outcome that has just settled: it goes on
\* to a sleep, and from there to the next attempt
Retries == sleepCount' = sleepCount + 1 /\ rpc' \in {"sleeping", "sending"}

\* C24 as stated: for every method of the configured retryableMethods, POST
\* and PUT included when the configuration adds them, a response with a
\* status of retryableStatusCodes is retried while attempts remain and the
\* signal is not triggered.
C24_ConfiguredMethodsRetried ==
  [][(/\ ResponseSettles
      /\ method \in resolved.retryOnMethods
      /\ lastOutcome'.status \in resolved.retryOnStatus
      /\ attempt < Max(1, resolved.maxAttempts)
      /\ signal # "aborted")
       => Retries]_vars

\* C25 as stated: for a method outside retryableMethods, a 429 response is
\* retried (attempts remaining, signal not triggered) if and only if it
\* carries a valid Retry-After hint; without one the call returns the
\* response at once and the caller receives a RateLimit error.
C25_RateLimitRetriedIffHint ==
  [][(/\ ResponseSettles
      /\ method \notin resolved.retryOnMethods
      /\ lastOutcome'.status = 429
      /\ attempt < Max(1, resolved.maxAttempts)
      /\ signal # "aborted")
       => /\ Retries <=> ValidHint(lastOutcome'.retryAfter)
          /\ ~ValidHint(lastOutcome'.retryAfter)
               => /\ rpc' = "returned"
                  /\ result' = lastOutcome'
                  /\ callerReceives' = "RateLimit"
                  /\ sendCount' = sendCount]_vars

\* the same for POST alone, the one method the transport treats so
RateLimitRetriedIffHintForPost ==
  [][(/\ ResponseSettles
      /\ method = "POST"
      /\ method \notin resolved.retryOnMethods
      /\ lastOutcome'.status = 429
      /\ attempt < Max(1, resolved.maxAttempts)
      /\ signal # "aborted")
       => /\ Retries <=> ValidHint(lastOutcome'.retryAfter)
          /\ ~ValidHint(lastOutcome'.retryAfter)
               => /\ rpc' = "returned"
                  /\ result' = lastOutcome'
                  /\ callerReceives' = "RateLimit"
                  /\ sendCount' = sendCount]_vars

\* the call has ended: it has returned a response or thrown an error
Ended == rpc \in {"returned", "thrown"}

\* C28: when the signal is already triggered as a failed attempt settles, no
\* timer is set and the sender is not invoked again: the call ends in that
\* step with the number of sends it had reached, however eligible for a
\* retry the failure is.
C28_TriggeredSignalStopsRetries ==
  [][(Settles /\ signal = "aborted")
       => /\ Ended'
          /\ timerCount' = timerCount
          /\ sleepCount' = sleepCount
          /\ sendCount' = sendCount
          /\ attempt' = attempt]_vars

\* a GET with three attempts allowed: the first 500 was retried, the signal
\* fired while the second attempt was in flight, and the second 500 ended
\* the call after two sends and one timer
C28_Witness ==
  /\ method = "GET" /\ resolved.maxAttempts = 3
  /\ signal = "aborted"
  /\ Ended
  /\ lastOutcome = Response(500, HeaderMissing)
  /\ attempt = 2 /\ sendCount = 2 /\ sleepCount = 1 /\ timerCount = 1

\* the sender is invoked in this step
Sends == sendCount' # sendCount

\* C29: the attempts of one call are strictly sequential.  The sender is
\* invoked once per step, and only to open the call, when the timer of the
\* sleep fires, or at the settlement of the attempt before it when the sleep
\* that follows is of length zero and sets no timer.  While an attempt is in
\* flight it is the only one: attempt N is preceded by N-1 settled attempts
\* and N-1 completed sleeps, and no send is in flight during a sleep or
\* after the call has ended.
C29_AttemptsStrictlySequential ==
  /\ [](rpc # "idle" => sendCount = attempt \/ (Ended /\ sendCount = attempt - 1))
  /\ [](rpc = "sending" => sleepCount = attempt - 1)
  /\ [](rpc = "sleeping" => sleepCount = attempt /\ lastOutcome # Null /\ delayMs > 0)
  /\ [][Sends
         => /\ sendCount' = sendCount + 1
            /\ rpc' = "sending"
            /\ \/ rpc = "idle"
               \/ rpc = "sleeping" /\ clock' = clock + delayMs
               \/ /\ rpc = "sending"
                  /\ lastOutcome' # Null
                  /\ sleepCount' = sleepCount + 1
                  /\ delayMs' = 0
                  /\ timerCount' = timerCount]_vars

\* the third attempt of a GET is in flight after two settled attempts and
\* two sleeps, each of which set a timer
C29_Witness ==
  /\ method = "GET"
  /\ rpc = "sending"
  /\ attempt = 3 /\ sendCount = 3 /\ sleepCount = 2 /\ timerCount = 2
  /\ clock > 0

\* C30: a configured maxAttempts of 1 or less, zero and negative values
\* included, allows exactly one attempt: the sender is invoked once, the
\* outcome of that attempt ends the call, and no sleep or timer ever occurs.
C30_MaxAttemptsFlooredAtOne ==
  resolved.maxAttempts <= 1
    => /\ sendCount = (IF rpc = "idle" THEN 0 ELSE 1)
       /\ sleepCount = 0
       /\ timerCount = 0
       /\ rpc # "sleeping"
       /\ lastOutcome # Null => Ended /\ result = lastOutcome

\* maxAttempts -1: a GET answered 500 ends after its only attempt
C30_Witness ==
  /\ resolved.maxAttempts = -1
  /\ method = "GET"
  /\ rpc = "returned" /\ result = Response(500, HeaderMissing)
  /\ sendCount = 1 /\ sleepCount = 0

\* what parseRetryAfterMs returns for every header the server may send now
ParsedHintInRange ==
  \A h \in RetryAfterHeaders(clock) :
    LET parsed == parseRetryAfterMs(h, resolved.maxDelayMs, clock)
        raw == IF h.h = "seconds" THEN h.v * 1000 ELSE h.v - clock
    IN  IF ~ValidHint(h) THEN parsed = Null
        ELSE /\ parsed # Null
             /\ parsed.ms \in 0..resolved.maxDelayMs
             /\ raw > resolved.maxDelayMs => parsed.ms = resolved.maxDelayMs
             /\ raw < 0 => parsed.ms = 0
             /\ raw \in 0..resolved.maxDelayMs => parsed.ms = raw

\* C31: parseRetryAfterMs returns nothing for a missing or unparseable
\* header and otherwise the hinted delay limited to [0, maxDelayMs]: a value
\* above the cap becomes the cap, a negative number of seconds or a date in
\* the past becomes 0.  A response retried with a valid hint is followed by a
\* sleep of that delay, one retried without a valid hint by a computed
\* backoff, and a sleep of 0 sets no timer: the next attempt is sent at once.
C31_RetryAfterParsedAndClamped ==
  /\ []ParsedHintInRange
  /\ [][/\ (ResponseSettles /\ Retries /\ ValidHint(lastOutcome'.retryAfter))
             => (delayMs' = HintMs(lastOutcome'.retryAfter, resolved.maxDelayMs, clock))
        /\ (ResponseSettles /\ Retries /\ ~ValidHint(lastOutcome'.retryAfter))
             => (delayMs' \in 0..BackoffWindow(attempt))
        /\ (Settles /\ Retries /\ delayMs' <= 0)
             => (/\ delayMs' = 0
                 /\ timerCount' = timerCount
                 /\ rpc' = "sending"
                 /\ attempt' = attempt + 1
                 /\ sendCount' = sendCount + 1)
        /\ (Settles /\ Retries /\ delayMs' > 0)
             => (rpc' = "sleeping" /\ timerCount' = timerCount + 1 /\ sendCount' = sendCount)]_vars

\* a POST answered 429 with Retry-After: -1 is sent again at once, without a
\* timer
C31_Witness ==
  /\ method = "POST"
  /\ lastOutcome = Response(429, HeaderSeconds(-1))
  /\ rpc = "sending"
  /\ attempt = 2 /\ sendCount = 2 /\ sleepCount = 1 /\ timerCount = 0
  /\ delayMs = 0

\* a GET answered 500 with a date in the past, and one with a hint of 60 s
\* under a cap of 1 s
C31_PastDateWitness ==
  /\ method = "GET"
  /\ lastOutcome = Response(500, HeaderDate(-3000))
  /\ rpc = "sending" /\ attempt = 2 /\ timerCount = 0 /\ delayMs = 0

C31_CapWitness ==
  /\ resolved.maxDelayMs = 1000
  /\ lastOutcome = Response(500, HeaderSeconds(60))
  /\ rpc = "sleeping" /\ delayMs = 1000

\* a sleep of the call was cut short by the signal
SleepAborted == rpc = "thrown" /\ result # lastOutcome

\* C35: a call of the transport whose sends and sleeps complete ends.  The
\* sender is invoked at most max(1, maxAttempts) times, a call that has ended
\* without a sleep cut short has slept at most once less than it has sent,
\* and the loop is never left by its closing throw.
C35_EveryCallTerminates ==
  /\ [](sendCount <= (IF resolved.maxAttempts > 1 THEN resolved.maxAttempts ELSE 1))
  /\ []((Ended /\ ~SleepAborted) => sleepCount <= sendCount - 1)
  /\ [](rpc \in {"sending", "sleeping"} => sleepCount <= sendCount)
  /\ [](Ended => result # Rejection("Retry loop exited unexpectedly"))
  /\ (rpc \in {"sending", "sleeping"} ~> Ended)

\* a GET whose three attempts were all answered 500 has ended after three
\* sends and two sleeps
C35_Witness ==
  /\ method = "GET" /\ resolved.maxAttempts = 3
  /\ rpc = "returned" /\ result = Response(500, HeaderMissing)
  /\ sendCount = 3 /\ sleepCount = 2

\* ------------------------------------------- core/utils.ts, core/errors.ts
\* the status the error made by createApiError carries: options.status
apiErrorStatusCode(status) == status

\* the statuses of the responses the error middleware hands to createApiError
NonOkStatuses == (100..599) \ (200..299)

\* JavaScript values of the data field of a result
Undefined == [t |-> "undefined"]
JsNull == [t |-> "null"]
DataValues ==
  {Undefined, JsNull, [t |-> "number", v |-> 0], [t |-> "number", v |-> 7],
   [t |-> "boolean", v |-> 0], [t |-> "string", v |-> 0], [t |-> "object", v |-> 1],
   [t |-> "array", v |-> 0]}

\* the helper of the first client, which returns the field as it is
extractData_Unchecked(data) == [threw |-> FALSE, value |-> data, error |-> "none"]

\* extractData, for the data field of the awaited result
extractData(data) ==
  IF data = Undefined \/ data = JsNull
  THEN [threw |-> TRUE, value |-> Undefined, error |-> "Parse:response"]
  ELSE [threw |-> FALSE, value |-> data, error |-> "none"]

\* the characters of a body: digits (a line of digits is a JSON number), a
\* character no JSON text contains, the space and the newline
Digits == {"1", "2"}
Alphabet == Digits \cup {"x", " ", "\n"}

RECURSIVE Texts(_)
Texts(n) == IF n = 0 THEN {<<>>} ELSE LET T == Texts(n - 1) IN T \cup {Append(t, ch) : t \in {u \in T : Len(u) = n - 1}, ch \in Alphabet}

\* bufferedText.indexOf('\n'), counted from 1; 0 when there is none
RECURSIVE indexOfNewline(_, _)
indexOfNewline(text, from) ==
  IF from > Len(text) THEN 0
  ELSE IF text[from] = "\n" THEN from
  ELSE indexOfNewline(text, from + 1)

\* String.prototype.trim
RECURSIVE trim(_)
trim(text) ==
  IF text = <<>> THEN text
  ELSE IF Head(text) \in {" ", "\n"} THEN trim(Tail(text))
  ELSE IF text[Len(text)] \in {" ", "\n"} THEN trim(SubSeq(text, 1, Len(text) - 1))
  ELSE text

\* JSON.parse succeeds on the line
JsonValid(line) == line # <<>> /\ \A i \in 1..Len(line) : line[i] \in Digits

\* JSON.parse: the number the digits denote
RECURSIVE JSONparse(_)
JSONparse(line) ==
  IF line = <<>> THEN 0
  ELSE 10 * JSONparse(SubSeq(line, 1, Len(line) - 1)) + (IF line[Len(line)] = "1" THEN 1 ELSE 2)

\* the helper of the first client, which throws a ParseError when the body
\* cannot be read
parseResponseBody_Throws(readOk, text) ==
  IF ~readOk THEN [threw |-> TRUE, value |-> Undefined, error |-> "Parse"]
  ELSE IF text = <<>> THEN [threw |-> FALSE, value |-> Undefined, error |-> "none"]
  ELSE IF JsonValid(trim(text))
  THEN [threw |-> FALSE, value |-> [t |-> "number", v |-> JSONparse(trim(text))], error |-> "none"]
  ELSE [threw |-> FALSE, value |-> [t |-> "string", v |-> text], error |-> "none"]

\* parseResponseBody: response.text() rejects (readOk is false) or resolves
\* with the text; JSON.parse accepts whitespace around the value
parseResponseBody(readOk, text) ==
  IF ~readOk THEN [threw |-> FALSE, value |-> Undefined, error |-> "none"]
  ELSE IF text = <<>> THEN [threw |-> FALSE, value |-> Undefined, error |-> "none"]
  ELSE IF JsonValid(trim(text))
  THEN [threw |-> FALSE, value |-> [t |-> "number", v |-> JSONparse(trim(text))], error |-> "none"]
  ELSE [threw |-> FALSE, value |-> [t |-> "string", v |-> text], error |-> "none"]

\* a loop that passes over a line it cannot parse
lineOutcome_SkipsBadLines(line) ==
  IF line = <<>> \/ ~JsonValid(line) THEN "continue" ELSE "yield"

\* what the loop does with a trimmed line: "if (!line) continue", the yield
\* of the parsed value, or the ParseError thrown from the catch block
lineOutcome(line) ==
  IF line = <<>> THEN "continue"
  ELSE IF JsonValid(line) THEN "yield"
  ELSE "throw"

\* The inner while loop of parseNdjsonStream, from its test to the next
\* yield, throw, or exit of the loop (when another read is needed)
RECURSIVE ScanLines(_)
ScanLines(buf) ==
  LET newlineIndex == indexOfNewline(buf, 1)
  IN  IF newlineIndex = 0 THEN [out |-> "read", buf |-> buf, value |-> -1]
      ELSE LET line == trim(SubSeq(buf, 1, newlineIndex - 1))
               rest == SubSeq(buf, newlineIndex + 1, Len(buf))
           IN  CASE lineOutcome(line) = "continue" -> ScanLines(rest)
                 [] lineOutcome(line) = "yield" -> [out |-> "yield", buf |-> rest, value |-> JSONparse(line)]
                 [] OTHER -> [out |-> "throw", buf |-> rest, value |-> -1]

\* an end of stream that forgets the text left in the buffer
Flush_DropsTrailing(buf) == [out |-> "end", buf |-> buf, value |-> -1]

\* After the loop: the trailing text without a newline
Flush(buf) ==
  LET trailing == trim(buf)
  IN  IF trailing = <<>> THEN [out |-> "end", buf |-> buf, value |-> -1]
      ELSE IF JsonValid(trailing) THEN [out |-> "yieldLast", buf |-> buf, value |-> JSONparse(trailing)]
      ELSE [out |-> "throw", buf |-> buf, value |-> -1]

\* a finally block that leaves the lock in place
releaseLock_Leak(l) == l

\* finally { reader.releaseLock() }
releaseLock(l) == FALSE

UtilParked ==
  /\ utilOp = "none"
  /\ utilIn = Null
  /\ utilOut = Null
  /\ hasBody = FALSE
  /\ body = <<>>
  /\ unread = <<>>
  /\ bufferedText = <<>>
  /\ ndPc = "parked"
  /\ locked = FALSE
  /\ received = <<>>
  /\ ndExit = "none"

ndVars == <<hasBody, body, unread, bufferedText, ndPc, locked, received, ndExit>>

\* the error middleware classifies a response of the given status
Classify(status) ==
  /\ utilOp = "none"
  /\ utilOp' = "classify"
  /\ utilIn' = [status |-> status]
  /\ utilOut' = [kind |-> createApiError(status), statusCode |-> apiErrorStatusCode(status)]
  /\ UNCHANGED ndVars
  /\ UNCHANGED <<authVars, retryVars>>

\* a resource method passes the result of a successful call to extractData
ExtractData(data) ==
  /\ utilOp = "none"
  /\ utilOp' = "extract"
  /\ utilIn' = [data |-> data]
  /\ utilOut' = extractData(data)
  /\ UNCHANGED ndVars
  /\ UNCHANGED <<authVars, retryVars>>

\* the arguments computeBackoffWithJitterMs is applied to
MaxAttemptIndex == 4
BackoffBases == {0, 250, 1000}
BackoffCaps == {0, 1000, 30000}

\* the retry loop computes the backoff that follows the attempt of the given
\* index
ComputeBackoff(attemptIndex, baseMs, capMs, random) ==
  /\ utilOp = "none"
  /\ utilOp' = "backoff"
  /\ utilIn' = [attemptIndex |-> attemptIndex, baseMs |-> baseMs, capMs |-> capMs, random |-> random]
  /\ utilOut' = [ms |-> computeBackoffWithJitterMs(attemptIndex, baseMs, capMs, random)]
  /\ UNCHANGED ndVars
  /\ UNCHANGED <<authVars, retryVars>>

\* the bodies and statuses of the error responses
MaxErrorBodyLen == 3
ErrorBodyStatuses == {404, 422, 500}

\* onResponse of the error middleware for a response that is not ok: the body
\* is parsed and the error made from the response and the body is thrown
ErrorOnResponse(status, readOk, text) ==
  /\ utilOp = "none"
  /\ utilOp' = "errorBody"
  /\ utilIn' = [status |-> status, readOk |-> readOk, text |-> text]
  /\ LET parsed == parseResponseBody(readOk, text)
     IN  utilOut' = [body |-> parsed,
                     thrown |-> IF parsed.threw THEN parsed.error ELSE createApiError(status)]
  /\ UNCHANGED ndVars
  /\ UNCHANGED <<authVars, retryVars>>

\* parseNdjsonStream(response) is called: the generator object is created,
\* none of its body has run
parseNdjsonStream(present, text) ==
  /\ utilOp = "none"
  /\ utilOp' = "ndjson"
  /\ hasBody' = present
  /\ body' = text
  /\ unread' = text
  /\ ndPc' = "idle"
  /\ UNCHANGED <<utilIn, utilOut, bufferedText, locked, received, ndExit>>
  /\ UNCHANGED <<authVars, retryVars>>

\* the generator goes on from a result of the scan or of the flush
Proceed(r) ==
  /\ bufferedText' = r.buf
  /\ CASE r.out = "read" ->
            /\ ndPc' = "reading"
            /\ UNCHANGED <<locked, received, ndExit>>
       [] r.out = "yield" ->
            /\ ndPc' = "suspended"
            /\ received' = Append(received, r.value)
            /\ UNCHANGED <<locked, ndExit>>
       [] r.out = "yieldLast" ->
            /\ ndPc' = "suspendedLast"
            /\ received' = Append(received, r.value)
            /\ UNCHANGED <<locked, ndExit>>
       [] r.out = "end" ->
            /\ ndPc' = "done"
            /\ ndExit' = "end"
            /\ locked' = releaseLock(locked)
            /\ UNCHANGED received
       [] OTHER ->
            /\ ndPc' = "failed"
            /\ ndExit' = "parse"
            /\ locked' = releaseLock(locked)
            /\ UNCHANGED received

\* The consumer asks for the next record: the generator starts, or resumes
\* after the yield at which it is suspended
ConsumerNext ==
  /\ utilOp = "ndjson"
  /\ ndPc \in {"idle", "suspended", "suspendedLast"}
  /\ CASE ndPc = "idle" ->
            IF ~hasBody
            THEN /\ ndPc' = "done"
                 /\ ndExit' = "end"
                 /\ UNCHANGED <<locked, bufferedText, received>>
            ELSE /\ locked' = TRUE
                 /\ ndPc' = "reading"
                 /\ UNCHANGED <<bufferedText, received, ndExit>>
       [] ndPc = "suspended" -> Proceed(ScanLines(bufferedText))
       [] OTHER ->
            /\ ndPc' = "done"
            /\ ndExit' = "end"
            /\ locked' = releaseLock(locked)
            /\ UNCHANGED <<bufferedText, received>>
  /\ UNCHANGED <<utilOp, utilIn, utilOut, hasBody, body, unread>>
  /\ UNCHANGED <<authVars, retryVars>>

\* a generator that starts every chunk with an empty buffer
ReadChunk_NoCarry(n) ==
  /\ utilOp = "ndjson"
  /\ ndPc = "reading"
  /\ n \in 1..Len(unread)
  /\ unread' = SubSeq(unread, n + 1, Len(unread))
  /\ Proceed(ScanLines(SubSeq(unread, 1, n)))
  /\ UNCHANGED <<utilOp, utilIn, utilOut, hasBody, body>>
  /\ UNCHANGED <<authVars, retryVars>>

\* a generator that collects the whole body before it looks for lines
ReadChunk_Buffers(n) ==
  /\ utilOp = "ndjson"
  /\ ndPc = "reading"
  /\ n \in 1..Len(unread)
  /\ unread' = SubSeq(unread, n + 1, Len(unread))
  /\ bufferedText' = bufferedText \o SubSeq(unread, 1, n)
  /\ UNCHANGED <<ndPc, locked, received, ndExit>>
  /\ UNCHANGED <<utilOp, utilIn, utilOut, hasBody, body>>
  /\ UNCHANGED <<authVars, retryVars>>

\* reader.read() resolves with the next chunk of the body
ReadChunk(n) ==
  /\ utilOp = "ndjson"
  /\ ndPc = "reading"
  /\ n \in 1..Len(unread)
  /\ unread' = SubSeq(unread, n + 1, Len(unread))
  /\ Proceed(ScanLines(bufferedText \o SubSeq(unread, 1, n)))
  /\ UNCHANGED <<utilOp, utilIn, utilOut, hasBody, body>>
  /\ UNCHANGED <<authVars, retryVars>>

\* reader.read() resolves with done: the stream has ended
ReadDone ==
  /\ utilOp = "ndjson"
  /\ ndPc = "reading"
  /\ unread = <<>>
  /\ Proceed(Flush(bufferedText))
  /\ UNCHANGED <<utilOp, utilIn, utilOut, hasBody, body, unread>>
  /\ UNCHANGED <<authVars, retryVars>>

\* reader.read() rejects: the error leaves the generator through the finally
ReadFails ==
  /\ utilOp = "ndjson"
  /\ ndPc = "reading"
  /\ ndPc' = "failed"
  /\ ndExit' = "read"
  /\ locked' = releaseLock(locked)
  /\ UNCHANGED <<utilOp, utilIn, utilOut, hasBody, body, unread, bufferedText, received>>
  /\ UNCHANGED <<authVars, retryVars>>

\* The consumer leaves its loop early (break, return): the generator's
\* return() runs the finally block if the body has started
ConsumerReturn ==
  /\ utilOp = "ndjson"
  /\ ndPc \in {"idle", "suspended", "suspendedLast"}
  /\ ndPc' = "done"
  /\ ndExit' = "return"
  /\ locked' = IF ndPc = "idle" THEN locked ELSE releaseLock(locked)
  /\ UNCHANGED <<utilOp, utilIn, utilOut, hasBody, body, unread, bufferedText, received>>
  /\ UNCHANGED <<authVars, retryVars>>

NextUtil ==
  \/ utilOp = "none" /\ \E status \in NonOkStatuses : Classify(status)
  \/ utilOp = "none" /\ \E data \in DataValues : ExtractData(data)
  \/ utilOp = "none" /\ \E i \in 0..MaxAttemptIndex, b \in BackoffBases, cap \in BackoffCaps, r \in RandomQuarters :
                          ComputeBackoff(i, b, cap, r)
  \/ utilOp = "none" /\ \E present \in BOOLEAN, text \in Texts(MaxBodyLen) :
                          (present \/ text = <<>>) /\ parseNdjsonStream(present, text)
  \/ utilOp = "none" /\ \E status \in ErrorBodyStatuses, readOk \in BOOLEAN, text \in Texts(MaxErrorBodyLen) :
                          (readOk \/ text = <<>>) /\ ErrorOnResponse(status, readOk, text)
  \/ ConsumerNext
  \/ \E n \in 1..MaxBodyLen : ReadChunk(n)
  \/ ReadDone
  \/ ReadFails
  \/ ConsumerReturn

\* ======================================================= claims on the helpers

\* the classification table of the error taxonomy
ExpectedKind ==
  [s \in NonOkStatuses |->
     IF s = 400 THEN "BadRequest"
     ELSE IF s = 401 THEN "Authentication"
     ELSE IF s = 403 THEN "Authorization"
     ELSE IF s = 404 THEN "NotFound"
     ELSE IF s = 409 THEN "Conflict"
     ELSE IF s = 429 THEN "RateLimit"
     ELSE IF s = 500 THEN "ServerError"
     ELSE IF s = 503 THEN "ServiceUnavailable"
     ELSE "Generic"]

ExpectedKindWith422 == [ExpectedKind EXCEPT ![422] = "Validation"]

RECURSIVE LinesOf(_)
LinesOf(text) ==
  LET n == indexOfNewline(text, 1)
  IN  IF n = 0 THEN <<text>>
      ELSE <<SubSeq(text, 1, n - 1)>> \o LinesOf(SubSeq(text, n + 1, Len(text)))

IsBlank(line) == \A i \in 1..Len(line) : line[i] = " "
IsBad(line) == ~IsBlank(line) /\ ~JsonValid(trim(line))
HasBad(text) == \E i \in 1..Len(LinesOf(text)) : IsBad(LinesOf(text)[i])

\* the values of the non-blank lines that come before the first line that
\* is not valid JSON, in order
RECURSIVE RecordsUpToBad(_)
RecordsUpToBad(lines) ==
  IF lines = <<>> THEN <<>>
  ELSE IF IsBlank(Head(lines)) THEN RecordsUpToBad(Tail(lines))
  ELSE IF IsBad(Head(lines)) THEN <<>>
  ELSE <<JSONparse(trim(Head(lines)))>> \o RecordsUpToBad(Tail(lines))

IsPrefix(p, q) == Len(p) <= Len(q) /\ SubSeq(q, 1, Len(p)) = p

\* C17: for a body whose non-blank lines are all valid JSON, an iteration
\* that runs to the end of the stream has yielded one record per non-blank
\* line, in the order of the stream, blank lines skipped and a last line
\* without newline included, and until then a prefix of them; a response
\* without body yields no record.
C17_OneRecordPerLine ==
  utilOp = "ndjson"
    => /\ ~hasBody => received = <<>>
       /\ (hasBody /\ ~HasBad(body))
            => /\ IsPrefix(received, RecordsUpToBad(LinesOf(body)))
               /\ ndExit = "end" => received = RecordsUpToBad(LinesOf(body))
               /\ ndExit # "parse"

\* a blank first line, a record, and a last record without newline
C17_Witness ==
  /\ utilOp = "ndjson"
  /\ body = <<" ", "\n", "1", "\n", "2">>
  /\ ndExit = "end"
  /\ received = <<1, 2>>

\* C18: when the generator meets a non-blank line that is not valid JSON it
\* raises a Parse error of stage json: the consumer has the records of all
\* the lines before it, the generator never passes over such a line, and
\* after the failure no record is delivered.
C18_MalformedLineEndsSequence ==
  [][/\ ndExit' = "parse"
          => /\ ndPc' = "failed"
             /\ HasBad(body')
             /\ received' = RecordsUpToBad(LinesOf(body'))
     /\ (hasBody' /\ ndExit' = "end") => ~HasBad(body')
     /\ HasBad(body') => IsPrefix(received', RecordsUpToBad(LinesOf(body')))
     /\ ndPc = "failed" => (received' = received /\ ndPc' = "failed")]_vars

\* a record, a malformed line, and a valid line after it that is not yielded
C18_Witness ==
  /\ utilOp = "ndjson"
  /\ body = <<"1", "\n", "x", "\n", "2">>
  /\ ndExit = "parse"
  /\ ndPc = "failed"
  /\ received = <<1>>

\* C19: the reader holds the lock while the iteration is under way, and an
\* iteration that has ended, by the end of the stream, a Parse error, a
\* failed read or the consumer's early return, has released it.
C19_ReaderReleasedOnEveryExit ==
  /\ ndPc \in {"reading", "suspended", "suspendedLast"} => locked
  /\ ndPc \in {"done", "failed"} => ~locked
  /\ ndPc \in {"done", "failed"} <=> ndExit \in {"end", "parse", "read", "return"}

\* the consumer left after the first of two records
C19_Witness ==
  /\ utilOp = "ndjson"
  /\ body = <<"1", "\n", "2", "\n">>
  /\ ndExit = "return"
  /\ received = <<1>>
  /\ ~locked

\* C20: extractData returns the data field as it is when it is present, and
\* raises a Parse error of stage response when it is undefined or null; it
\* never returns undefined or null.
C20_ExtractDataNeverNull ==
  utilOp = "extract"
    => /\ IF utilIn.data \in {Undefined, JsNull}
          THEN utilOut.threw /\ utilOut.error = "Parse:response"
          ELSE ~utilOut.threw /\ utilOut.value = utilIn.data
       /\ ~utilOut.threw => utilOut.value \notin {Undefined, JsNull}

C20_Witness ==
  /\ utilOp = "extract"
  /\ utilIn.data = JsNull
  /\ utilOut.threw
  /\ utilOut.error = "Parse:response"

\* C32: for every attempt index and every non-negative base and cap, the
\* computed backoff lies between 0 and the smaller of the cap and
\* base * 2^index: it never exceeds the cap, however many attempts were made.
C32_BackoffWithinWindow ==
  utilOp = "backoff"
    => /\ utilOut.ms >= 0
       /\ utilOut.ms <= utilIn.capMs
       /\ utilOut.ms <= utilIn.baseMs * (2 ^ utilIn.attemptIndex)

\* the fifth backoff of a base of 1 s under a cap of 1 s, at three quarters
\* of the window
C32_Witness ==
  /\ utilOp = "backoff"
  /\ utilIn = [attemptIndex |-> 4, baseMs |-> 1000, capMs |-> 1000, random |-> 3]
  /\ utilOut.ms = 750

\* the lines of a text that end in a newline
CompleteLines(text) == SubSeq(LinesOf(text), 1, Len(LinesOf(text)) - 1)
\* the text holds a complete line that is not blank
CanSupply(text) == \E i \in 1..Len(CompleteLines(text)) : ~IsBlank(CompleteLines(text)[i])
\* a chunk is read from the body in this step
ReadsChunk == utilOp = "ndjson" /\ unread' # unread
ChunkRead == SubSeq(unread, 1, Len(unread) - Len(unread'))

\* C34: the generator reads from the body only while the consumer waits for
\* a record, and starts to read only when the consumer asks for a record
\* that the buffered text cannot supply; when the chunk it reads completes a
\* line, the record of the first complete line is handed over in that step,
\* whatever is left unread of the body (or the Parse error raised, when that
\* line is malformed).
C34_PullBasedAndLazy ==
  [][/\ ReadsChunk => ndPc = "reading"
     /\ (ndPc # "reading" /\ ndPc' = "reading")
          => (ndPc \in {"idle", "suspended"} /\ ~CanSupply(bufferedText))
     /\ (ReadsChunk /\ CanSupply(bufferedText \o ChunkRead))
          => LET recs == RecordsUpToBad(CompleteLines(bufferedText \o ChunkRead))
             IN  IF recs # <<>>
                 THEN received' = Append(received, Head(recs)) /\ ndPc' = "suspended"
                 ELSE received' = received /\ ndPc' = "failed"
     /\ (ReadsChunk /\ ~CanSupply(bufferedText \o ChunkRead))
          => (received' = received /\ ndPc' = "reading")]_vars

\* the first record has been handed over while the second is still unread
C34_Witness ==
  /\ utilOp = "ndjson"
  /\ body = <<"1", "\n", "2", "\n">>
  /\ unread = <<"2", "\n">>
  /\ ndPc = "suspended"
  /\ received = <<1>>

\* two records came in one chunk: the second is supplied from the buffer
C34_BufferedWitness ==
  /\ utilOp = "ndjson"
  /\ body = <<"1", "\n", "2", "\n", "1">>
  /\ unread = <<"1">>
  /\ ndPc = "suspended"
  /\ received = <<1, 2>>
  /\ bufferedText = <<>>

\* the iteration over a body that arrives as one chunk, run to its end: the
\* records it yields and how it ends
RECURSIVE Drain(_, _)
Drain(buf, acc) ==
  LET r == ScanLines(buf)
  IN  CASE r.out = "yield" -> Drain(r.buf, Append(acc, r.value))
        [] r.out = "throw" -> [records |-> acc, exit |-> "parse"]
        [] OTHER ->
             LET f == Flush(r.buf)
             IN  CASE f.out = "yieldLast" -> [records |-> Append(acc, f.value), exit |-> "end"]
                   [] f.out = "end" -> [records |-> acc, exit |-> "end"]
                   [] OTHER -> [records |-> acc, exit |-> "parse"]
OneChunk(text) == Drain(text, <<>>)

\* C39: however the body is split into chunks, the iteration yields the
\* records the same body yields when it arrives as one chunk: an iteration
\* that has run to the end or to a Parse error has yielded exactly those
\* records and has ended in the same way, and one that is under way, or was
\* left early, has yielded a prefix of them.
C39_ChunkingIsIrrelevant ==
  (utilOp = "ndjson" /\ hasBody)
    => /\ IsPrefix(received, OneChunk(body).records)
       /\ ndExit \in {"end", "parse"}
            => /\ received = OneChunk(body).records
               /\ ndExit = OneChunk(body).exit

\* the first chunk ended in the middle of the first line
C39_Witness ==
  /\ utilOp = "ndjson"
  /\ body = <<"1", "2", "\n", "2">>
  /\ bufferedText = <<"1">>
  /\ unread = <<"2", "\n", "2">>
  /\ ndPc = "reading"
  /\ received = <<>>

\* the same body has been read to its end
C39_EndWitness ==
  /\ utilOp = "ndjson"
  /\ body = <<"1", "2", "\n", "2">>
  /\ ndExit = "end"
  /\ received = <<12, 2>>

\* the text is a JSON value: digits, with whitespace before and after at most
JsonSpan(text) ==
  {sp \in (1..Len(text)) \X (1..Len(text)) :
     /\ sp[1] <= sp[2]
     /\ \A i \in 1..Len(text) :
          IF i \in sp[1]..sp[2] THEN text[i] \in Digits ELSE text[i] \in {" ", "\n"}}
IsJsonText(text) == JsonSpan(text) # {}
JsonValueOf(text) ==
  LET sp == CHOOSE x \in JsonSpan(text) : TRUE
  IN  [t |-> "number", v |-> JSONparse(SubSeq(text, sp[1], sp[2]))]

\* C33: parseResponseBody never throws: it returns the parsed value of a
\* body that is valid JSON, the raw text of a body that is not empty and not
\* valid JSON, and undefined for an empty body or one that cannot be read;
\* whatever the body, the error thrown for the response is the one its status
\* is classified as.
C33_ParseResponseBodyNeverThrows ==
  utilOp = "errorBody"
    => /\ ~utilOut.body.threw
       /\ utilOut.body.value =
            (IF ~utilIn.readOk \/ utilIn.text = <<>> THEN Undefined
             ELSE IF IsJsonText(utilIn.text) THEN JsonValueOf(utilIn.text)
             ELSE [t |-> "string", v |-> utilIn.text])
       /\ utilOut.thrown = ExpectedKindWith422[utilIn.status]

\* a 500 whose body cannot be read is still thrown as a ServerError
C33_Witness ==
  /\ utilOp = "errorBody"
  /\ utilIn = [status |-> 500, readOk |-> FALSE, text |-> <<>>]
  /\ utilOut.body.value = Undefined
  /\ utilOut.thrown = "ServerError"

\* a body that is not JSON is kept as text, one padded with whitespace is
\* parsed
C33_TextWitness ==
  /\ utilOp = "errorBody"
  /\ utilIn.text = <<"x", " ", "1">>
  /\ utilOut.body.value = [t |-> "string", v |-> <<"x", " ", "1">>]

C33_JsonWitness ==
  /\ utilOp = "errorBody"
  /\ utilIn.text = <<" ", "1", "\n">>
  /\ utilOut.body.value = [t |-> "number", v |-> 1]

Init == AuthInit /\ resolved = PipelineRetry /\ RetryParked /\ UtilParked

Spec == Init /\ [][Next]_vars

InitRetry == AuthInit /\ RetryInit /\ UtilParked

SpecRetry == InitRetry /\ [][NextRetry]_vars

\* one call of retryingFetch whose sends settle and whose timers fire
SpecRetryFair ==
  /\ InitRetry
  /\ [][NextRetry]_vars
  /\ WF_vars(\E o \in RetryOutcomes(clock) : AttemptSettles(o))
  /\ WF_vars(TimerFires)

InitUtil == Init

SpecUtil == InitUtil /\ [][NextUtil]_vars

====
